---------------------------- MODULE Spec2Model ----------------------------
(***************************************************************************)
(* A model of the Adobe Express GUI agent: the candidate resolver and the  *)
(* step executor of executor_playwright.py and the recovery loop of        *)
(* run_gui_agent_loop.py.                                                  *)
(*                                                                         *)
(* Encoding of Python values:                                              *)
(*   - a str is a TLA+ string; its i-th character is SubSeq(s, i, i);      *)
(*   - None is the string None (no name, role or text of the model is that *)
(*     string);                                                            *)
(*   - a dict is a function whose DOMAIN is the set of its keys, so        *)
(*     "k in d" is k \in DOMAIN d and d.get(k, v) is Get(d, k, v); a dict  *)
(*     that is None is the empty function NoDict (the code reads such a    *)
(*     value only through "x or {}" and truth tests);                      *)
(*   - a list is a sequence, and a list that is None is the empty one      *)
(*     (the code reads it through "x or []");                              *)
(*   - a bbox is <<x, y, width, height>>, the absent bbox is <<>>;         *)
(*   - a score is an integer number of 1/2000 (0.0005): box centres are    *)
(*     kept doubled (2x + width), so a distance is in half pixels and      *)
(*     d / 1000.0 is exactly d2 / 2000.                                    *)
(***************************************************************************)
EXTENDS Integers, Sequences, FiniteSets, TLC

VARIABLES
    \* ---- candidate resolver, called on its own (SpecRank) ----
    r_elements,     \* elements_min handed to _rank_candidates
    r_match,        \* the match dict of the last call
    r_last,         \* the last_target of the last call
    r_ranked,       \* the list the last call returned
    r_called,       \* whether _rank_candidates has been called
    r_step,         \* the step whose target was resolved on its own (SpecResolve)
    r_res,          \* selector and chosen_el the step acts on, or the error
    \* ---- run_plan_stepwise ----
    x_elements,     \* elements_min of the snapshot the call was given
    x_nsteps,       \* len(steps) of the plan the call was given
    x_step,         \* the step the for loop is at, read from the plan on arrival
    x_vars,         \* user_vars, as a sequence of <<key, value>> pairs
    x_observer,     \* whether on_after_action was given
    x_pc,           \* where the call stands
    x_i,            \* index of the step the for loop is at
    x_last,         \* last_chosen_el
    x_sel,          \* selector of the current step
    x_el,           \* chosen_el of the current step
    x_text,         \* text of the current step, after substitution
    x_fb,           \* _try_open_nav_and_retry_home: branch b and element index k
    x_calls,        \* the primitives and observer calls of the current step, in order
    x_outcomes,     \* how each step the loop has left ended, in order
    x_ret,          \* the value returned (when x_pc = "done")
    \* ---- main of run_gui_agent_loop.py ----
    m_pc,           \* where main stands
    round_id,       \* round_id
    user_prompt,    \* user_prompt
    email_value,    \* email_value
    min_json,       \* min_json["elements_min"] of the latest snapshot main took
    plan_nsteps,    \* len(plan["steps"]) of the latest plan
    ok,             \* ok
    step_counter,   \* step_counter["i"]
    m_events,       \* what main has done in the round so far, in order
    out_dir,        \* elements_min of the files element_index_min_r<round_id>_pre
                    \* and _recover that snapshot_page has written in the round
    \* ---- snapshot_page, from the full records to elements_min ----
    s_full,         \* full_elems, each record with the ax node aligned to it
    s_ax,           \* ax_flat
    s_ax2dom,       \* ax2dom: index of ax_flat -> index of dom_nodes
    s_pc,           \* where snapshot_page stands
    s_i,            \* index of the record the current loop is at
    s_seen,         \* seen
    s_minimal,      \* minimal
    \* ---- _norm, called on its own (SpecNorm) ----
    n_s,            \* the argument of the first call
    n_out           \* what the calls returned, each call given the result before

rvars == <<r_elements, r_match, r_last, r_ranked, r_called, r_step, r_res>>

xvars == <<x_elements, x_nsteps, x_step, x_vars, x_observer, x_pc, x_i, x_last, x_sel,
           x_el, x_text, x_fb, x_calls, x_outcomes, x_ret>>

mvars == <<m_pc, round_id, user_prompt, email_value, min_json, plan_nsteps, ok,
           step_counter, m_events, out_dir>>

svars == <<s_full, s_ax, s_ax2dom, s_pc, s_i, s_seen, s_minimal>>

nvars == <<n_s, n_out>>

vars == <<rvars, xvars, mvars, svars, nvars>>

None == "<None>"

\* The absent dict: None and {} are both falsy and both read with .get defaults.
NoDict == << >>

\* Python truthiness of a str-or-None: None and "" are falsy.
Truthy(s) == s # None /\ s # ""

Get(d, k, dflt) == IF k \in DOMAIN d THEN d[k] ELSE dflt

Max(a, b) == IF a >= b THEN a ELSE b

Min(a, b) == IF a <= b THEN a ELSE b

Abs(a) == IF a >= 0 THEN a ELSE -a

---------------------------------------------------------------------------
(* Strings *)

UpperChars == "ABCDEFGHIJKLMNOPQRSTUVWXYZ"

LowerChars == "abcdefghijklmnopqrstuvwxyz"

CharAt(s, i) == SubSeq(s, i, i)

\* \s of the re module, for the characters the model uses
IsSpace(c) == c \in {" ", "\t", "\n"}

\* the lower-case letter of every upper-case letter
LowerOf ==
    [c \in {CharAt(UpperChars, i) : i \in 1..Len(UpperChars)} |->
        CharAt(LowerChars, CHOOSE i \in 1..Len(UpperChars) : CharAt(UpperChars, i) = c)]

\* str.swapcase on one character
SwapCase(c) ==
    IF c \in DOMAIN LowerOf THEN LowerOf[c]
    ELSE IF \E u \in DOMAIN LowerOf : LowerOf[u] = c
    THEN CHOOSE u \in DOMAIN LowerOf : LowerOf[u] = c
    ELSE c

LowerChar(c) == IF c \in DOMAIN LowerOf THEN LowerOf[c] ELSE c

RECURSIVE StrLower(_)
StrLower(s) ==
    IF s = "" THEN "" ELSE LowerChar(CharAt(s, 1)) \o StrLower(Tail(s))

\* re.sub(r"\s+", " ", s): every maximal run of whitespace becomes one space
RECURSIVE CollapseSpaces(_)
CollapseSpaces(s) ==
    IF s = "" THEN ""
    ELSE IF IsSpace(CharAt(s, 1))
         THEN IF Len(s) >= 2 /\ IsSpace(CharAt(s, 2))
              THEN CollapseSpaces(Tail(s))
              ELSE " " \o CollapseSpaces(Tail(s))
         ELSE CharAt(s, 1) \o CollapseSpaces(Tail(s))

RECURSIVE LStrip(_)
LStrip(s) ==
    IF s # "" /\ IsSpace(CharAt(s, 1)) THEN LStrip(Tail(s)) ELSE s

RECURSIVE RStrip(_)
RStrip(s) ==
    IF s # "" /\ IsSpace(CharAt(s, Len(s)))
    THEN RStrip(SubSeq(s, 1, Len(s) - 1)) ELSE s

\* str.strip()
Strip(s) == RStrip(LStrip(s))

\* str.startswith
StartsWith(t, q) == Len(q) <= Len(t) /\ SubSeq(t, 1, Len(q)) = q

\* q in t
Contains(t, q) ==
    \E i \in 1..(Len(t) - Len(q) + 1) : SubSeq(t, i, i + Len(q) - 1) = q

\* re.sub(r"\s+", " ", (s or "")).strip().lower()
NormOf(s) ==
    StrLower(Strip(CollapseSpaces(IF s = None THEN "" ELSE s)))

---------------------------------------------------------------------------
(* The values the model draws its inputs from *)

\* An element record of elements_min (snapshot_runtime.py builds them with the
\* keys uid, role, name, selector_pref and bbox, among others).
Element(uid, role, name, sel, bbox) ==
    [uid |-> uid, role |-> role, name |-> name, selector_pref |-> sel, bbox |-> bbox]

\* The element a previous step acted on: its box centre is (150, 120).
Anchor == Element("t0", "textbox", "Email address", None, <<100, 100, 100, 40>>)

AnchorNoBox == Element("t0", "textbox", "Email address", None, <<>>)

\* The elements of a sign-in page and of a page with a navigation menu
EmailBox ==
    Element("e1", "textbox", "Email address", "input[name=\"email\"]",
            <<100, 100, 100, 40>>)

ContinueBtn == Element("b1", "button", "Continue", None, <<200, 100, 100, 40>>)

GoogleBtn == Element("g1", "button", "Continue with Google", None, <<600, 100, 100, 40>>)

MenuBtn == Element("m1", "button", "Menu", None, <<0, 0, 40, 40>>)

LogoLink == Element("l1", "link", "Adobe Express", "a[href=\"/\"]", <<50, 0, 100, 40>>)

HomeLink == Element("h1", "link", "Home", None, <<>>)

\* Elements a snapshot of SpecRank is made of. The three Continue buttons lie
\* 100, 300 and 1200 px from the Anchor's centre, the Google button 500 px.
RankPool ==
    { ContinueBtn,
      Element("b2", "button", "Continue", None, <<400, 100, 100, 40>>),
      Element("b3", "button", "Continue", None, <<1300, 100, 100, 40>>),
      GoogleBtn,
      HomeLink,
      Element("h2", "Button", "Home  Page", None, <<100, 100, 100, 40>>),
      Element("n0", "button", "", None, <<>>),
      Element("s1", None, "continue shopping", "div > span", <<>>) }

TextOpts == { NoDict, [text |-> "Continue"], [text |-> "home"], [text |-> "Page"],
              [text |-> " "] }

RoleOpts == { NoDict, [role |-> "button"], [role |-> "Link"] }

ExactOpts == { NoDict, [exact |-> TRUE] }

NotContainsOpts == { NoDict, [not_contains |-> <<"Page">>], [not_contains |-> <<" ">>] }

MatchPool ==
    { t @@ r @@ e @@ n : t \in TextOpts, r \in RoleOpts, e \in ExactOpts,
                         n \in NotContainsOpts }

LastPool == { NoDict, Anchor, AnchorNoBox }

\* The snapshots run_plan_stepwise is given
LoginSnap == <<EmailBox, GoogleBtn, ContinueBtn>>

NavSnap == <<MenuBtn, LogoLink, HomeLink>>

LogoSnap == <<HomeLink, LogoLink>>

SnapPool == { LoginSnap, NavSnap, LogoSnap }

\* The steps a plan is made of
StepPool ==
    { [action |-> "type", text |-> "<PAGE><EMAIL>", value |-> "x",
       target |-> [match |-> [text |-> "Email", role |-> "textbox"]]],
      [action |-> "click",
       target |-> [match |-> [text |-> "Continue",
                              not_contains |-> <<"google", "apple">>],
                   role |-> "link", name |-> "Home"]],
      [action |-> "click", target |-> [role |-> "link", name |-> "Home"]],
      [action |-> "click",
       target |-> [role |-> "link", name |-> "Home", not_contains |-> <<"express">>]],
      [action |-> "click", target |-> [uid |-> "g1", not_contains |-> <<"google">>]],
      [action |-> "click", target |-> [uid |-> "g1"]],
      [action |-> "click",
       target |-> [match |-> [role |-> "link"], not_contains |-> <<"home">>]],
      [action |-> " Click ", target |-> [selector |-> "#submit", uid |-> "zz"]],
      [action |-> "type", text |-> "x", target |-> [selector |-> "#email"]],
      [action |-> "click", role |-> "Button", name |-> "Continue"],
      [action |-> "wait_url_contains", value |-> "/home"],
      [action |-> "wait_url_contains", value |-> "<EMAIL><EMAIL>",
       target |-> [selector |-> "body"]],
      [action |-> "end", target |-> [uid |-> "zz"]],
      [action |-> "hover", target |-> [selector |-> "#submit"]],
      [action |-> "hover"],
      [action |-> ""] }

MaxSteps == 3

\* The plans: every list of at most MaxSteps steps of StepPool. A plan is given
\* by its length when run_plan_stepwise is called, and each of its steps by the
\* for loop as it arrives at it.
PlanLens == 0..MaxSteps

\* user_vars: the EMAIL variable that the loop passes, and a variable that is None
VarsPool == { <<<<"EMAIL", "a@b.com">>, <<"PAGE", None>>>> }

_NEG_DEFAULT == <<"with google", "with apple", "with facebook", "with">>

\* the elements of the snapshots of SnapPool
SnapElements == UNION { {snap[i] : i \in 1..Len(snap)} : snap \in SnapPool }

\* every string of the inputs above that the program normalizes
ModelStrings ==
    {None, ""}
        \cup {el.name : el \in RankPool \cup (LastPool \ {NoDict})}
        \cup {el.role : el \in RankPool \cup (LastPool \ {NoDict})}
        \cup {m.text : m \in (TextOpts \ {NoDict})}
        \cup {m.role : m \in (RoleOpts \ {NoDict})}
        \cup {m.not_contains[1] : m \in (NotContainsOpts \ {NoDict})}
        \cup {_NEG_DEFAULT[i] : i \in 1..Len(_NEG_DEFAULT)}
        \cup {el.name : el \in SnapElements}
        \cup {el.role : el \in SnapElements}
        \cup {"Email", "google", "apple", "express", "Menu", "Main menu",
              "Navigation", "Open navigation", "More", "More options",
              "Toggle navigation", "Show menu", "Close", "Open", "Express",
              "Adobe logo", "Go to Home"}

\* NormOf tabulated over a set of strings and over their normal forms
Tabulate(S) == [s \in S \cup {NormOf(t) : t \in S} |-> NormOf(s)]

NormTable == Tabulate(ModelStrings)

\* the table's entry for a string of the table, NormOf(s) for any other
Lookup(table, s) == IF s \in DOMAIN table THEN table[s] ELSE NormOf(s)

\* _norm(s), read from NormTable
_norm(s) == Lookup(NormTable, s)

---------------------------------------------------------------------------
(* Candidate resolver *)

_PREFER_ROLES == <<"textbox", "button", "link">>

\* _score_text with a prefix match scored as an equal name
ScoreTextPrefixAsEqual(q, t) ==
    LET qn == _norm(q)
        tn == _norm(t)
    IN  IF qn = "" \/ tn = "" THEN 0
        ELSE IF StartsWith(tn, qn) THEN 2000
        ELSE IF Contains(tn, qn) THEN 1200
        ELSE 0

\* _score_text, in 1/2000: 1.0, 0.85, 0.6, 0.0
_score_text(q, t) ==
    LET qn == _norm(q)
        tn == _norm(t)
    IN  IF qn = "" \/ tn = "" THEN 0
        ELSE IF qn = tn THEN 2000
        ELSE IF StartsWith(tn, qn) THEN 1700
        ELSE IF Contains(tn, qn) THEN 1200
        ELSE 0

\* _is_blocked(text, not_contains)
_is_blocked(text, not_contains) ==
    LET tn == _norm(text)
    IN  \E i \in 1..Len(not_contains) :
            LET bad == _norm(not_contains[i])
            IN  bad # "" /\ Contains(tn, bad)

\* math.hypot on two integers whose squares sum to a perfect square (the boxes of
\* the model are chosen so): CHOOSE has no value otherwise and TLC reports it.
Hypot(dx, dy) ==
    IF dy = 0 THEN Abs(dx)
    ELSE IF dx = 0 THEN Abs(dy)
    ELSE CHOOSE r \in Max(Abs(dx), Abs(dy))..(Abs(dx) + Abs(dy)) :
             r * r = dx * dx + dy * dy

\* 2 * (bbox["x"] + bbox["width"] / 2.0), 2 * (bbox["y"] + bbox["height"] / 2.0)
Center2(bbox) == <<2 * bbox[1] + bbox[3], 2 * bbox[2] + bbox[4]>>

\* ProximityBonus with the subtraction from 0.25 lost: the bonus grows with d
ProximityBonusGrowing(el, last_target) ==
    IF last_target # NoDict
       /\ Get(el, "bbox", <<>>) # <<>> /\ Get(last_target, "bbox", <<>>) # <<>>
    THEN LET c  == Center2(el.bbox)
             c2 == Center2(last_target.bbox)
         IN  Min(Hypot(c[1] - c2[1], c[2] - c2[2]), 500)
    ELSE 0

\* ProximityBonus with 2.5 in the place of 0.25: the bonus lasts up to 2500 px
ProximityBonusTenfold(el, last_target) ==
    IF last_target # NoDict
       /\ Get(el, "bbox", <<>>) # <<>> /\ Get(last_target, "bbox", <<>>) # <<>>
    THEN LET c  == Center2(el.bbox)
             c2 == Center2(last_target.bbox)
             d  == Hypot(c[1] - c2[1], c[2] - c2[2])
         IN  Max(0, 5000 - Min(d, 5000))
    ELSE 0

\* lines 76-83: s_near = max(0.0, 0.25 - min(d / 1000.0, 0.25)), in 1/2000
ProximityBonus(el, last_target) ==
    IF last_target # NoDict
       /\ Get(el, "bbox", <<>>) # <<>> /\ Get(last_target, "bbox", <<>>) # <<>>
    THEN LET c  == Center2(el.bbox)
             c2 == Center2(last_target.bbox)
             d  == Hypot(c[1] - c2[1], c[2] - c2[2])
         IN  Max(0, 500 - Min(d, 500))
    ELSE 0

\* lines 70-73: s_role = 0.3 - 0.1 * _PREFER_ROLES.index(role), in 1/2000
RoleBonus(role) ==
    IF \E i \in 1..Len(_PREFER_ROLES) : _PREFER_ROLES[i] = role
    THEN 600 - 200 * ((CHOOSE i \in 1..Len(_PREFER_ROLES) : _PREFER_ROLES[i] = role) - 1)
    ELSE 0

\* lines 46-49: the fields of the match dict as the loop reads them
MatchText(match) == Get(match, "text", "")

MatchRole(match) == Get(match, "role", None)

MatchExact(match) == Get(match, "exact", FALSE)

\* MatchNotContains without "+ _NEG_DEFAULT"
MatchNotContainsCustomOnly(match) == Get(match, "not_contains", <<>>)

MatchNotContains(match) == Get(match, "not_contains", <<>>) \o _NEG_DEFAULT

\* TextScore without the "if exact and ..." override of lines 65-66
TextScoreIgnoringExact(el, match) ==
    IF Truthy(MatchText(match))
    THEN _score_text(MatchText(match), Get(el, "name", None)) ELSE 600

\* lines 63-66: the text score of one element, 0.3 for an empty query, 0 when
\* exact is set and the normalized names differ
TextScore(el, match) ==
    LET want_text == MatchText(match)
        name      == Get(el, "name", None)
        s_txt     == IF Truthy(want_text) THEN _score_text(want_text, name) ELSE 600
    IN  IF MatchExact(match) /\ _norm(want_text) # _norm(name) THEN 0 ELSE s_txt

\* Eligible without the role filter of lines 55-57
EligibleAnyRole(el, match) ==
    /\ Truthy(Get(el, "name", None))
    /\ ~_is_blocked(Get(el, "name", None), MatchNotContains(match))
    /\ TextScore(el, match) > 0

\* lines 53-68: the element survives every "continue" of the loop body
Eligible(el, match) ==
    LET name      == Get(el, "name", None)
        role      == _norm(Get(el, "role", None))
        want_role == MatchRole(match)
    IN  /\ ~(Truthy(want_role) /\ _norm(want_role) # role)
        /\ Truthy(name)
        /\ ~_is_blocked(name, MatchNotContains(match))
        /\ TextScore(el, match) > 0

\* line 85: score = s_txt + s_role + s_near
Score(el, match, last_target) ==
    TextScore(el, match) + RoleBonus(_norm(Get(el, "role", None)))
        + ProximityBonus(el, last_target)

\* InsertByScore with x put ahead of the entries whose score equals its own
RECURSIVE InsertByScoreTiesAhead(_, _)
InsertByScoreTiesAhead(sorted, x) ==
    IF sorted = <<>> THEN <<x>>
    ELSE IF Head(sorted).score > x.score
         THEN <<Head(sorted)>> \o InsertByScoreTiesAhead(Tail(sorted), x)
         ELSE <<x>> \o sorted

\* cands.sort(key=lambda x: x[0]) on (-score, el): a stable sort, highest score
\* first; x goes behind every entry whose score is at least its own
RECURSIVE InsertByScore(_, _)
InsertByScore(sorted, x) ==
    IF sorted = <<>> THEN <<x>>
    ELSE IF Head(sorted).score >= x.score
         THEN <<Head(sorted)>> \o InsertByScore(Tail(sorted), x)
         ELSE <<x>> \o sorted

RECURSIVE SortByScore(_)
SortByScore(cands) ==
    IF cands = <<>> THEN <<>>
    ELSE InsertByScore(SortByScore(SubSeq(cands, 1, Len(cands) - 1)),
                       cands[Len(cands)])

\* lines 51-86: the (score, el) pairs of the eligible elements, in snapshot order
RECURSIVE Candidates(_, _, _)
Candidates(elements_min, match, last_target) ==
    IF elements_min = <<>> THEN <<>>
    ELSE LET el == Head(elements_min)
             rest == Candidates(Tail(elements_min), match, last_target)
         IN  IF Eligible(el, match)
             THEN <<[score |-> Score(el, match, last_target), el |-> el]>> \o rest
             ELSE rest

\* _rank_candidates(elements_min, match, last_target); "match or {}"
_rank_candidates(elements_min, match, last_target) ==
    LET sorted == SortByScore(Candidates(elements_min, match, last_target))
    IN  [i \in 1..Len(sorted) |-> sorted[i].el]

---------------------------------------------------------------------------
(* Target resolution of the step executor *)

\* a or b on str-or-None values
OrElse(a, b) == IF Truthy(a) THEN a ELSE b

\* str.replace(old, new) for a non-empty old: every occurrence, left to right
RECURSIVE StrReplace(_, _, _)
StrReplace(s, old, new) ==
    IF Len(s) < Len(old) THEN s
    ELSE IF SubSeq(s, 1, Len(old)) = old
         THEN new \o StrReplace(SubSeq(s, Len(old) + 1, Len(s)), old, new)
         ELSE CharAt(s, 1) \o StrReplace(Tail(s), old, new)

\* lines 308-310: for k, v in user_vars.items(): text = text.replace(f"<{k}>", v or "")
\* user_vars is a sequence of <<key, value>> pairs in the dict's order
RECURSIVE SubstituteVars(_, _)
SubstituteVars(text, user_vars) ==
    IF user_vars = <<>> THEN text
    ELSE SubstituteVars(
             StrReplace(text, "<" \o Head(user_vars)[1] \o ">",
                        IF Head(user_vars)[2] = None THEN "" ELSE Head(user_vars)[2]),
             Tail(user_vars))

\* StepText reading the value field ahead of the text field
StepTextValueFirst(step, user_vars) ==
    LET text == IF Get(step, "value", None) = None
                THEN Get(step, "text", "") ELSE step.value
    IN  IF text # None /\ user_vars # <<>> THEN SubstituteVars(text, user_vars)
        ELSE text

\* lines 303-310: the payload of a step; a payload that is no str stays as it is
StepText(step, user_vars) ==
    LET text == IF Get(step, "text", None) = None
                THEN Get(step, "value", "") ELSE step.text
    IN  IF text # None /\ user_vars # <<>> THEN SubstituteVars(text, user_vars)
        ELSE text

\* _resolve_target_selector(element); None when nothing can be derived
_resolve_target_selector(element) ==
    IF Truthy(Get(element, "selector_pref", None)) THEN element.selector_pref
    ELSE IF Truthy(Get(element, "role", None)) /\ Truthy(Get(element, "name", None))
         THEN "aria://" \o StrLower(Strip(element.role)) \o "::" \o Strip(element.name)
    ELSE IF Truthy(Get(element, "selector", None)) THEN element.selector
    ELSE None

\* _find_element_by_uid falling back on the first element of the snapshot
FindByUidOrFirst(elements_min, uid) ==
    IF \E i \in 1..Len(elements_min) : Get(elements_min[i], "uid", None) = uid
    THEN elements_min[CHOOSE i \in 1..Len(elements_min) :
             /\ Get(elements_min[i], "uid", None) = uid
             /\ \A j \in 1..(i - 1) : Get(elements_min[j], "uid", None) # uid]
    ELSE IF elements_min # <<>> THEN elements_min[1] ELSE NoDict

\* _find_element_by_uid: the first element with that uid, NoDict for None
_find_element_by_uid(elements_min, uid) ==
    IF \E i \in 1..Len(elements_min) : Get(elements_min[i], "uid", None) = uid
    THEN elements_min[CHOOSE i \in 1..Len(elements_min) :
             /\ Get(elements_min[i], "uid", None) = uid
             /\ \A j \in 1..(i - 1) : Get(elements_min[j], "uid", None) # uid]
    ELSE NoDict

\* the first element of the list that satisfies P, NoDict when none does
FirstWhere(elements_min, P(_)) ==
    IF \E i \in 1..Len(elements_min) : P(elements_min[i])
    THEN elements_min[CHOOSE i \in 1..Len(elements_min) :
             P(elements_min[i]) /\ \A j \in 1..(i - 1) : ~P(elements_min[j])]
    ELSE NoDict

\* _find_by_match with the substring pass alone
FindByMatchSubstringOnly(elements_min, role, name) ==
    LET role_n == _norm(role)
        name_n == _norm(name)
        PartHit(el) ==
            /\ ~(role_n # "" /\ _norm(Get(el, "role", None)) # role_n)
            /\ ~(name_n # "" /\ ~Contains(_norm(Get(el, "name", None)), name_n))
    IN  FirstWhere(elements_min, PartHit)

\* _find_by_match(elements_min, role, name): exact pass, then substring pass
_find_by_match(elements_min, role, name) ==
    LET role_n == _norm(role)
        name_n == _norm(name)
        RoleOk(el) == ~(role_n # "" /\ _norm(Get(el, "role", None)) # role_n)
        ExactHit(el) ==
            RoleOk(el) /\ ~(name_n # "" /\ _norm(Get(el, "name", None)) # name_n)
        PartHit(el) ==
            RoleOk(el)
                /\ ~(name_n # "" /\ ~Contains(_norm(Get(el, "name", None)), name_n))
    IN  IF FirstWhere(elements_min, ExactHit) # NoDict
        THEN FirstWhere(elements_min, ExactHit)
        ELSE FirstWhere(elements_min, PartHit)

\* LegacyMatch with exact left out of the match
LegacyMatchWithoutExact(target) ==
    [role         |-> Get(target, "role", None),
     text         |-> OrElse(Get(target, "name", None), Get(target, "text", "")),
     not_contains |-> Get(target, "not_contains", <<>>)]

\* lines 335-340 and 383-388: the match built from a legacy (role, name) target
LegacyMatch(target) ==
    [role         |-> Get(target, "role", None),
     text         |-> OrElse(Get(target, "name", None), Get(target, "text", "")),
     exact        |-> Get(target, "exact", FALSE),
     not_contains |-> Get(target, "not_contains", <<>>)]

\* the outcome of resolving a target: err is "raise RuntimeError"
Resolved(selector, chosen_el) == [err |-> FALSE, selector |-> selector, chosen_el |-> chosen_el]

ResolveError == [err |-> TRUE, selector |-> None, chosen_el |-> NoDict]

\* the first entry of a ranked list, or the error when the list is empty
FirstRanked(ranked) ==
    IF ranked = <<>> THEN ResolveError
    ELSE Resolved(_resolve_target_selector(ranked[1]), ranked[1])

\* lines 361-362: a resolution that gives no selector is an error as well
WithSelector(res) == IF ~res.err /\ ~Truthy(res.selector) THEN ResolveError ELSE res

\* lines 320-323, 354-357: the element that was looked up, or the error
ResolveChosen(el) ==
    IF el = NoDict THEN ResolveError ELSE Resolved(_resolve_target_selector(el), el)

\* ResolveIn with the uid looked up ahead of the selector
ResolveInUidFirst(target, step, elements_min, last_chosen_el) ==
    IF "uid" \in DOMAIN target
    THEN ResolveChosen(_find_element_by_uid(elements_min, target.uid))
    ELSE IF "selector" \in DOMAIN target THEN Resolved(target.selector, NoDict)
    ELSE IF "match" \in DOMAIN target
    THEN FirstRanked(_rank_candidates(elements_min, target.match, last_chosen_el))
    ELSE IF ("role" \in DOMAIN target \/ "name" \in DOMAIN target)
            /\ ("not_contains" \in DOMAIN target \/ "exact" \in DOMAIN target)
    THEN FirstRanked(_rank_candidates(elements_min, LegacyMatch(target), last_chosen_el))
    ELSE IF "role" \in DOMAIN target \/ "name" \in DOMAIN target
    THEN ResolveChosen(_find_by_match(elements_min, Get(target, "role", None),
                                      Get(target, "name", None)))
    ELSE IF Truthy(Get(step, "name", None)) /\ Truthy(Get(step, "role", None))
    THEN Resolved("aria://" \o _norm(step.role) \o "::" \o step.name, NoDict)
    ELSE ResolveError

\* lines 313-360: the branches of the target resolution
ResolveIn(target, step, elements_min, last_chosen_el) ==
    IF "selector" \in DOMAIN target THEN Resolved(target.selector, NoDict)
    ELSE IF "uid" \in DOMAIN target
    THEN ResolveChosen(_find_element_by_uid(elements_min, target.uid))
    ELSE IF "match" \in DOMAIN target
    THEN FirstRanked(_rank_candidates(elements_min, target.match, last_chosen_el))
    ELSE IF ("role" \in DOMAIN target \/ "name" \in DOMAIN target)
            /\ ("not_contains" \in DOMAIN target \/ "exact" \in DOMAIN target)
    THEN FirstRanked(_rank_candidates(elements_min, LegacyMatch(target), last_chosen_el))
    ELSE IF "role" \in DOMAIN target \/ "name" \in DOMAIN target
    THEN ResolveChosen(_find_by_match(elements_min, Get(target, "role", None),
                                      Get(target, "name", None)))
    ELSE IF Truthy(Get(step, "name", None)) /\ Truthy(Get(step, "role", None))
    THEN Resolved("aria://" \o _norm(step.role) \o "::" \o step.name, NoDict)
    ELSE ResolveError

\* lines 313-362: target -> selector and chosen element
ResolveTarget(step, elements_min, last_chosen_el) ==
    WithSelector(ResolveIn(Get(step, "target", NoDict), step, elements_min,
                           last_chosen_el))

\* lines 382-388: the match the second look ranks with, NoDict when the target
\* has neither a match nor a legacy (role, name)
RecheckMatch(target) ==
    IF "match" \in DOMAIN target THEN target.match
    ELSE IF "role" \in DOMAIN target \/ "name" \in DOMAIN target
         THEN LegacyMatch(target)
         ELSE NoDict

\* lines 389-393: the second candidate takes the place of a blocked first choice
SecondOf(res, m2, alts, blocked) ==
    IF res.chosen_el # NoDict /\ blocked /\ m2 # NoDict /\ Len(alts) >= 2
    THEN Resolved(_resolve_target_selector(alts[2]), alts[2])
    ELSE res

\* lines 376-393: the second look at the chosen element before a click
ClickRecheck(res, target, elements_min, last_chosen_el) ==
    SecondOf(res, RecheckMatch(target),
             _rank_candidates(elements_min, RecheckMatch(target), last_chosen_el),
             _is_blocked(Get(res.chosen_el, "name", ""),
                         Get(target, "not_contains", <<>>)))

\* line 397: the name the Home test of a click looks at
HomeTestName(chosen_el, target) ==
    _norm(OrElse(Get(chosen_el, "name", None),
                 OrElse(Get(Get(target, "match", NoDict), "text", None),
                        OrElse(Get(target, "name", None), ""))))

---------------------------------------------------------------------------
(* The Home fallback *)

_NAV_OPENER_NAMES ==
    <<"Menu", "Main menu", "Navigation", "Open navigation", "More", "More options",
      "Toggle navigation", "Show menu", "Close", "Open">>

_LOGO_NAMES == <<"Adobe Express", "Express", "Adobe logo", "Home", "Go to Home">>

\* _norm(name) in [_norm(n) for n in names]
NormIn(name, names) == \E i \in 1..Len(names) : _norm(name) = _norm(names[i])

\* lines 215-221, 231-237, 244-250: the element is one that branch b of
\* _try_open_nav_and_retry_home tries, and a selector can be derived for it
FbCandidate(b, el) ==
    LET role == _norm(Get(el, "role", None))
        name == Get(el, "name", None)
    IN  /\ CASE b = 1 -> role = "button" /\ NormIn(name, _NAV_OPENER_NAMES)
              [] b = 2 -> role \in {"link", "img", "button"} /\ NormIn(name, _LOGO_NAMES)
              [] b = 3 -> role = "link" /\ Contains(_norm(name), "home")
        /\ Truthy(_resolve_target_selector(el))

\* no branch left: _try_open_nav_and_retry_home returns False
FbNone == [b |-> 4, k |-> 1]

\* NextFb with the nav-opener and the logo branch left out
RECURSIVE NextFbHomeLinkOnly(_, _, _)
NextFbHomeLinkOnly(elements_min, b, k) ==
    IF b > 3 THEN FbNone
    ELSE IF b < 3 THEN NextFbHomeLinkOnly(elements_min, 3, 1)
    ELSE IF k > Len(elements_min) THEN FbNone
    ELSE IF FbCandidate(3, elements_min[k]) THEN [b |-> 3, k |-> k]
    ELSE NextFbHomeLinkOnly(elements_min, 3, k + 1)

\* the next element a branch tries, from element k of branch b on, in the order
\* of the three for loops
RECURSIVE NextFb(_, _, _)
NextFb(elements_min, b, k) ==
    IF b > 3 THEN FbNone
    ELSE IF k > Len(elements_min) THEN NextFb(elements_min, b + 1, 1)
    ELSE IF FbCandidate(b, elements_min[k]) THEN [b |-> b, k |-> k]
    ELSE NextFb(elements_min, b, k + 1)

---------------------------------------------------------------------------
(* run_plan_stepwise *)

\* line 295: (step or {}).get("action", "").strip().lower()
ActionOf(step) == StrLower(Strip(Get(step, "action", "")))

\* one entry of x_calls: a primitive of the page or the observer callback
Call(step, op, sel, obj, arg, done) ==
    [step |-> step, op |-> op, sel |-> sel, obj |-> obj, arg |-> arg, ok |-> done]

\* _click(page, selector): scroll_into_view_if_needed, then click
ClickCalls(step, sel, obj, outcome) ==
    <<Call(step, "scroll", sel, obj, "", outcome # "scroll_raises")>>
        \o (IF outcome = "scroll_raises" THEN <<>>
            ELSE <<Call(step, "click", sel, obj, "", outcome = "ok")>>)

ClickOutcomes == {"ok", "scroll_raises", "click_raises"}

\* _type_text(page, selector, text): scroll, click, fill("") whose failure is
\* passed over, type(text)
TypeCalls(step, sel, obj, text, outcome, fill_raises) ==
    <<Call(step, "scroll", sel, obj, "", outcome # "scroll_raises")>>
        \o (IF outcome = "scroll_raises" THEN <<>>
            ELSE <<Call(step, "click", sel, obj, "", outcome # "click_raises")>>)
        \o (IF outcome \in {"scroll_raises", "click_raises"} THEN <<>>
            ELSE <<Call(step, "fill", sel, obj, "", ~fill_raises),
                   Call(step, "type", sel, obj, text, outcome = "ok")>>)

TypeOutcomes == {"ok", "scroll_raises", "click_raises", "type_raises"}

NoFb == [b |-> 0, k |-> 0]

\* the locals of a step, as they are before the step starts
ClearStep ==
    /\ x_sel' = None
    /\ x_el' = NoDict
    /\ x_text' = ""
    /\ x_fb' = NoFb

\* Fail without the return: the for loop goes on with the next step
FailAndGoOn(calls) ==
    /\ x_pc' = "step"
    /\ x_i' = x_i + 1
    /\ x_calls' = calls
    /\ x_outcomes' = Append(x_outcomes, "failed")
    /\ ClearStep
    /\ UNCHANGED <<x_last, x_ret>>

\* lines 425-427: except Exception -> return False
Fail(calls) ==
    /\ x_pc' = "done"
    /\ x_ret' = FALSE
    /\ x_calls' = calls
    /\ x_outcomes' = Append(x_outcomes, "failed")
    /\ ClearStep
    /\ UNCHANGED <<x_i, x_last>>

\* "continue" before anything was done: on to the next step
Continue(outcome) ==
    /\ x_pc' = "step"
    /\ x_i' = x_i + 1
    /\ x_calls' = <<>>
    /\ x_outcomes' = Append(x_outcomes, outcome)
    /\ ClearStep
    /\ UNCHANGED <<x_last, x_ret>>

\* run_plan_stepwise(page, element_index_min, plan, user_vars, on_after_action)
\* is called: lines 280-284
ExecCall(elements_min, nsteps, user_vars, observer) ==
    /\ x_pc = "idle"
    /\ x_elements' = elements_min
    /\ x_nsteps' = nsteps
    /\ x_step' = NoDict
    /\ x_vars' = user_vars
    /\ x_observer' = observer
    /\ x_pc' = "step"
    /\ x_i' = 1
    /\ x_last' = NoDict
    /\ x_calls' = <<>>
    /\ x_outcomes' = <<>>
    /\ x_ret' = FALSE
    /\ ClearStep

\* PlanExhausted with a plan of no steps reported as a failure
PlanExhaustedEmptyFails ==
    /\ x_pc = "step"
    /\ x_i > x_nsteps
    /\ x_pc' = "done"
    /\ x_ret' = (x_nsteps > 0)
    /\ UNCHANGED <<x_i, x_last, x_sel, x_el, x_text, x_fb, x_calls, x_outcomes>>
    /\ UNCHANGED <<x_elements, x_nsteps, x_step, x_vars, x_observer>>

\* line 429: the for loop is over, return True
PlanExhausted ==
    /\ x_pc = "step"
    /\ x_i > x_nsteps
    /\ x_pc' = "done"
    /\ x_ret' = TRUE
    /\ UNCHANGED <<x_i, x_last, x_sel, x_el, x_text, x_fb, x_calls, x_outcomes>>
    /\ UNCHANGED <<x_elements, x_nsteps, x_step, x_vars, x_observer>>

\* lines 365-368, 375-395: on to the visibility wait on the resolved target
ToVisible(res, text) ==
    /\ x_pc' = "visible"
    /\ x_sel' = res.selector
    /\ x_el' = res.chosen_el
    /\ x_text' = text
    /\ x_calls' = <<>>
    /\ UNCHANGED <<x_i, x_last, x_fb, x_outcomes, x_ret>>

\* Dispatch with the target resolved ahead of the test for "end"
DispatchResolvingFirst(action, text, target, res) ==
    IF action = "" THEN Continue("empty")
    ELSE IF res.err THEN Fail(<<>>)
    ELSE IF action = "end"
    THEN /\ x_pc' = "done"
         /\ x_ret' = TRUE
         /\ x_calls' = <<>>
         /\ x_outcomes' = Append(x_outcomes, "end")
         /\ UNCHANGED <<x_i, x_last, x_sel, x_el, x_text, x_fb>>
    ELSE IF action = "type" THEN ToVisible(res, IF text = None THEN "" ELSE text)
    ELSE IF action = "click"
    THEN ToVisible(ClickRecheck(res, target, x_elements, x_last), "")
    ELSE IF action = "wait_url_contains"
    THEN IF ~Truthy(text) THEN Fail(<<>>)
         ELSE /\ x_pc' = "wait_url"
              /\ x_text' = text
              /\ x_calls' = <<>>
              /\ UNCHANGED <<x_i, x_last, x_sel, x_el, x_fb, x_outcomes, x_ret>>
    ELSE Continue("skipped")

\* lines 296-300, 365-368, 375-393, 412-415, 420-423: what a step does once its
\* action, payload and target are known, up to its first primitive
Dispatch(action, text, target, res) ==
    IF action = "" THEN Continue("empty")
    ELSE IF action = "end"
    THEN /\ x_pc' = "done"
         /\ x_ret' = TRUE
         /\ x_calls' = <<>>
         /\ x_outcomes' = Append(x_outcomes, "end")
         /\ UNCHANGED <<x_i, x_last, x_sel, x_el, x_text, x_fb>>
    ELSE IF res.err THEN Fail(<<>>)
    ELSE IF action = "type" THEN ToVisible(res, IF text = None THEN "" ELSE text)
    ELSE IF action = "click"
    THEN ToVisible(ClickRecheck(res, target, x_elements, x_last), "")
    ELSE IF action = "wait_url_contains"
    THEN IF ~Truthy(text) THEN Fail(<<>>)
         ELSE /\ x_pc' = "wait_url"
              /\ x_text' = text
              /\ x_calls' = <<>>
              /\ UNCHANGED <<x_i, x_last, x_sel, x_el, x_fb, x_outcomes, x_ret>>
    ELSE Continue("skipped")

\* lines 294-423: one step of the for loop, up to its first primitive
StepBegin(step) ==
    /\ x_pc = "step"
    /\ x_i <= x_nsteps
    /\ x_step' = step
    /\ Dispatch(ActionOf(step),
                StepText(step, x_vars),
                Get(step, "target", NoDict),
                ResolveTarget(step, x_elements, x_last))
    /\ UNCHANGED <<x_elements, x_nsteps, x_vars, x_observer>>

\* StepDone with last_chosen_el left as it was
StepDoneKeepingLast(calls, last) ==
    /\ x_pc' = "after"
    /\ x_calls' = calls
    /\ UNCHANGED <<x_i, x_last, x_sel, x_el, x_text, x_fb, x_outcomes, x_ret>>

\* the step succeeded: last_chosen_el is set and _after comes next
StepDone(calls, last) ==
    /\ x_pc' = "after"
    /\ x_calls' = calls
    /\ x_last' = last
    /\ UNCHANGED <<x_i, x_sel, x_el, x_text, x_fb, x_outcomes, x_ret>>

\* _try_open_nav_and_retry_home goes on with the next element it tries, from
\* element k of branch b on; with none left it returns False and line 405 raises
FbAdvance(calls, b, k) ==
    LET pos == NextFb(x_elements, b, k)
    IN  IF pos = FbNone THEN Fail(calls)
        ELSE /\ x_pc' = "fb_visible"
             /\ x_fb' = pos
             /\ x_calls' = calls
             /\ UNCHANGED <<x_i, x_last, x_sel, x_el, x_text, x_outcomes, x_ret>>

\* IsVisible with the answer of the wait passed over
IsVisibleUnheeded(visible) ==
    /\ x_pc = "visible"
    /\ x_sel = None => ~visible
    /\ x_pc' = IF ActionOf(x_step) = "type" THEN "type_text" ELSE "click"
    /\ x_calls' = IF x_sel = None THEN x_calls
                  ELSE Append(x_calls, Call(x_i, "wait_visible", x_sel, x_el, "", visible))
    /\ UNCHANGED <<x_i, x_last, x_sel, x_el, x_text, x_fb, x_outcomes, x_ret>>
    /\ UNCHANGED <<x_elements, x_nsteps, x_step, x_vars, x_observer>>

\* IsVisible with the Home fallback entered for whatever click is not visible
IsVisibleFallbackForAll(visible) ==
    /\ x_pc = "visible"
    /\ x_sel = None => ~visible
    /\ LET calls == IF x_sel = None THEN x_calls
                    ELSE Append(x_calls,
                                Call(x_i, "wait_visible", x_sel, x_el, "", visible))
           action == ActionOf(x_step)
       IN  IF visible
           THEN /\ x_pc' = IF action = "type" THEN "type_text" ELSE "click"
                /\ x_calls' = calls
                /\ UNCHANGED <<x_i, x_last, x_sel, x_el, x_text, x_fb, x_outcomes, x_ret>>
           ELSE IF action = "click"
           THEN FbAdvance(calls, 1, 1)
           ELSE Fail(calls)
    /\ UNCHANGED <<x_elements, x_nsteps, x_step, x_vars, x_observer>>

\* lines 368 and 395: _is_visible(page, selector), a bounded wait on the page.
\* A selector that is None makes it answer False without any wait (line 107
\* raises inside its try).
IsVisible(visible) ==
    /\ x_pc = "visible"
    /\ x_sel = None => ~visible
    /\ LET calls == IF x_sel = None THEN x_calls
                    ELSE Append(x_calls,
                                Call(x_i, "wait_visible", x_sel, x_el, "", visible))
           action == ActionOf(x_step)
       IN  IF visible
           THEN /\ x_pc' = IF action = "type" THEN "type_text" ELSE "click"
                /\ x_calls' = calls
                /\ UNCHANGED <<x_i, x_last, x_sel, x_el, x_text, x_fb, x_outcomes, x_ret>>
           ELSE IF action = "click"
                   /\ Contains(HomeTestName(x_el, Get(x_step, "target", NoDict)),
                               "home")
           THEN FbAdvance(calls, 1, 1)
           ELSE Fail(calls)
    /\ UNCHANGED <<x_elements, x_nsteps, x_step, x_vars, x_observer>>

\* TypeText with a fill("") that fails failing the step
TypeTextClearFails(outcome, fill_raises) ==
    /\ x_pc = "type_text"
    /\ fill_raises => outcome \in {"ok", "type_raises"}
    /\ LET calls == x_calls \o TypeCalls(x_i, x_sel, x_el, x_text, outcome, fill_raises)
       IN  IF outcome = "ok" /\ ~fill_raises
           THEN StepDone(calls, IF x_el # NoDict THEN x_el ELSE x_last)
           ELSE Fail(calls)
    /\ UNCHANGED <<x_elements, x_nsteps, x_step, x_vars, x_observer>>

\* lines 370-373: _type_text(page, selector, text)
TypeText(outcome, fill_raises) ==
    /\ x_pc = "type_text"
    /\ fill_raises => outcome \in {"ok", "type_raises"}
    /\ LET calls == x_calls \o TypeCalls(x_i, x_sel, x_el, x_text, outcome, fill_raises)
       IN  IF outcome = "ok"
           THEN StepDone(calls, IF x_el # NoDict THEN x_el ELSE x_last)
           ELSE Fail(calls)
    /\ UNCHANGED <<x_elements, x_nsteps, x_step, x_vars, x_observer>>

\* Click with line 409 as last_chosen_el = chosen_el
ClickSettingChosen(outcome) ==
    /\ x_pc = "click"
    /\ LET calls == x_calls \o ClickCalls(x_i, x_sel, x_el, outcome)
       IN  IF outcome = "ok"
           THEN StepDone(calls, x_el)
           ELSE Fail(calls)
    /\ UNCHANGED <<x_elements, x_nsteps, x_step, x_vars, x_observer>>

\* lines 407-410: _click(page, selector)
Click(outcome) ==
    /\ x_pc = "click"
    /\ LET calls == x_calls \o ClickCalls(x_i, x_sel, x_el, outcome)
       IN  IF outcome = "ok"
           THEN StepDone(calls, IF x_el # NoDict THEN x_el ELSE x_last)
           ELSE Fail(calls)
    /\ UNCHANGED <<x_elements, x_nsteps, x_step, x_vars, x_observer>>

\* WaitUrl with the timeout of the wait passed over
WaitUrlPassingOver(reached) ==
    /\ x_pc = "wait_url"
    /\ StepDone(Append(x_calls, Call(x_i, "wait_url", None, NoDict, x_text, reached)),
                x_last)
    /\ UNCHANGED <<x_elements, x_nsteps, x_step, x_vars, x_observer>>

\* lines 416-418: page.wait_for_url(...), which raises on its timeout
WaitUrl(reached) ==
    /\ x_pc = "wait_url"
    /\ LET calls == Append(x_calls, Call(x_i, "wait_url", None, NoDict, x_text, reached))
       IN  IF reached THEN StepDone(calls, x_last) ELSE Fail(calls)
    /\ UNCHANGED <<x_elements, x_nsteps, x_step, x_vars, x_observer>>

\* ObserverTarget with the chosen element in the place of the target
ObserverTargetChosen(step) == x_el

\* line 418 hands the observer {"value": want}, the other steps their target
ObserverTarget(step) ==
    IF ActionOf(step) = "wait_url_contains" THEN [value |-> x_text]
    ELSE Get(step, "target", NoDict)

\* AfterAction with what the observer raises caught by lines 425-427
AfterActionFailing(raises) ==
    /\ x_pc = "after"
    /\ raises => x_observer
    /\ LET calls == IF x_observer
                    THEN Append(x_calls, Call(x_i, "observer", None, ObserverTarget(x_step),
                                              ActionOf(x_step), ~raises))
                    ELSE x_calls
       IN  IF raises THEN Fail(calls)
           ELSE /\ x_calls' = calls
                /\ x_pc' = "step"
                /\ x_i' = x_i + 1
                /\ x_outcomes' = Append(x_outcomes, IF x_fb = NoFb THEN "ok" ELSE "ok_fallback")
                /\ ClearStep
                /\ UNCHANGED <<x_last, x_ret>>
    /\ UNCHANGED <<x_elements, x_nsteps, x_step, x_vars, x_observer>>

\* lines 286-291: _after(a, tgt) calls on_after_action when it was given and
\* passes over whatever it raises; the for loop then goes on
AfterAction(raises) ==
    /\ x_pc = "after"
    /\ raises => x_observer
    /\ x_calls' =
           IF x_observer
           THEN Append(x_calls, Call(x_i, "observer", None, ObserverTarget(x_step),
                                     ActionOf(x_step), ~raises))
           ELSE x_calls
    /\ x_pc' = "step"
    /\ x_i' = x_i + 1
    /\ x_outcomes' = Append(x_outcomes, IF x_fb = NoFb THEN "ok" ELSE "ok_fallback")
    /\ ClearStep
    /\ UNCHANGED <<x_last, x_ret>>
    /\ UNCHANGED <<x_elements, x_nsteps, x_step, x_vars, x_observer>>

\* the element and the selector the fallback is trying
FbElement == x_elements[x_fb.k]

FbSelector == _resolve_target_selector(FbElement)

\* lines 221, 237, 250: _is_visible on the opener, the logo or the home link
FbIsVisible(visible) ==
    /\ x_pc = "fb_visible"
    /\ LET calls == Append(x_calls,
                           Call(x_i, "wait_visible", FbSelector, FbElement, "", visible))
       IN  IF visible
           THEN /\ x_pc' = "fb_click"
                /\ x_calls' = calls
                /\ UNCHANGED <<x_i, x_last, x_sel, x_el, x_text, x_fb, x_outcomes, x_ret>>
           ELSE FbAdvance(calls, x_fb.b, x_fb.k + 1)
    /\ UNCHANGED <<x_elements, x_nsteps, x_step, x_vars, x_observer>>

\* FbClick with every branch going on as the nav-opener branch does
FbClickOpenerOnly(outcome) ==
    /\ x_pc = "fb_click"
    /\ LET calls == x_calls \o ClickCalls(x_i, FbSelector, FbElement, outcome)
       IN  IF outcome # "ok" THEN FbAdvance(calls, x_fb.b, x_fb.k + 1)
           ELSE /\ x_pc' = "fb_home_visible"
                /\ x_calls' = calls
                /\ UNCHANGED <<x_i, x_last, x_sel, x_el, x_text, x_fb, x_outcomes, x_ret>>
    /\ UNCHANGED <<x_elements, x_nsteps, x_step, x_vars, x_observer>>

\* lines 222, 238, 251: _click on it; what it raises is passed over. After the
\* logo or a home link was clicked the fallback returns True (lines 401-404).
FbClick(outcome) ==
    /\ x_pc = "fb_click"
    /\ LET calls == x_calls \o ClickCalls(x_i, FbSelector, FbElement, outcome)
       IN  IF outcome # "ok" THEN FbAdvance(calls, x_fb.b, x_fb.k + 1)
           ELSE IF x_fb.b = 1
           THEN /\ x_pc' = "fb_home_visible"
                /\ x_calls' = calls
                /\ UNCHANGED <<x_i, x_last, x_sel, x_el, x_text, x_fb, x_outcomes, x_ret>>
           ELSE StepDone(calls, NoDict)
    /\ UNCHANGED <<x_elements, x_nsteps, x_step, x_vars, x_observer>>

\* line 224: with the navigation opened, _is_visible on the Home selector again
FbHomeVisible(visible) ==
    /\ x_pc = "fb_home_visible"
    /\ x_sel = None => ~visible
    /\ LET calls == Append(x_calls,
                           Call(x_i, "wait_visible", x_sel, x_el, "", visible))
       IN  IF visible
           THEN /\ x_pc' = "fb_home_click"
                /\ x_calls' = calls
                /\ UNCHANGED <<x_i, x_last, x_sel, x_el, x_text, x_fb, x_outcomes, x_ret>>
           ELSE FbAdvance(calls, 1, x_fb.k + 1)
    /\ UNCHANGED <<x_elements, x_nsteps, x_step, x_vars, x_observer>>

\* lines 225-226: _click on the Home selector; return True
FbHomeClick(outcome) ==
    /\ x_pc = "fb_home_click"
    /\ LET calls == x_calls \o ClickCalls(x_i, x_sel, x_el, outcome)
       IN  IF outcome = "ok" THEN StepDone(calls, NoDict)
           ELSE FbAdvance(calls, 1, x_fb.k + 1)
    /\ UNCHANGED <<x_elements, x_nsteps, x_step, x_vars, x_observer>>

---------------------------------------------------------------------------
(* The candidate resolver on its own: SpecRank builds a snapshot element by  *)
(* element and calls _rank_candidates on it with a match and a last target.  *)

MaxEls == 2

\* snapshot_page appends one more record to elements_min; every record of a
\* snapshot has a uid of its own (_uid(), "ax-<index>")
SnapshotAppend(el) ==
    /\ ~r_called
    /\ Len(r_elements) < MaxEls
    /\ \A i \in 1..Len(r_elements) : r_elements[i].uid # el.uid
    /\ r_elements' = Append(r_elements, el)
    /\ UNCHANGED <<r_match, r_last, r_ranked, r_called, r_step, r_res>>

\* ranked = _rank_candidates(elements_min, match, last_target)
RankCall(match, last_target) ==
    /\ ~r_called
    /\ r_match' = match
    /\ r_last' = last_target
    /\ r_ranked' = _rank_candidates(r_elements, match, last_target)
    /\ r_called' = TRUE
    /\ UNCHANGED <<r_elements, r_step, r_res>>

\* _rank_candidates has not been called
RankIdle ==
    /\ r_elements = <<>>
    /\ r_match = NoDict
    /\ r_last = NoDict
    /\ r_ranked = <<>>
    /\ r_called = FALSE
    /\ r_step = NoDict
    /\ r_res = NoDict

\* run_plan_stepwise has not been called
ExecIdle ==
    /\ x_elements = <<>>
    /\ x_nsteps = 0
    /\ x_step = NoDict
    /\ x_vars = <<>>
    /\ x_observer = FALSE
    /\ x_pc = "idle"
    /\ x_i = 1
    /\ x_last = NoDict
    /\ x_sel = None
    /\ x_el = NoDict
    /\ x_text = ""
    /\ x_fb = NoFb
    /\ x_calls = <<>>
    /\ x_outcomes = <<>>
    /\ x_ret = FALSE

\* main has not been started
MainIdle ==
    /\ m_pc = "off"
    /\ round_id = 1
    /\ user_prompt = ""
    /\ email_value = ""
    /\ min_json = <<>>
    /\ plan_nsteps = 0
    /\ ok = FALSE
    /\ step_counter = 0
    /\ m_events = <<>>
    /\ out_dir = <<>>

\* snapshot_page has not been called
SnapIdle ==
    /\ s_full = <<>>
    /\ s_ax = <<>>
    /\ s_ax2dom = <<>>
    /\ s_pc = "idle"
    /\ s_i = 1
    /\ s_seen = {}
    /\ s_minimal = <<>>

\* _norm has not been called
NormIdle ==
    /\ n_s = None
    /\ n_out = <<>>

InitRank == RankIdle /\ ExecIdle /\ MainIdle /\ SnapIdle /\ NormIdle

NextRank ==
    \/ \E el \in RankPool : SnapshotAppend(el) /\ UNCHANGED <<xvars, mvars, svars, nvars>>
    \/ \E m \in MatchPool, l \in LastPool : RankCall(m, l) /\ UNCHANGED <<xvars, mvars, svars, nvars>>

SpecRank == InitRank /\ [][NextRank]_vars

---------------------------------------------------------------------------
(* SpecResolve: the target resolution of one step of run_plan_stepwise on   *)
(* its own, on every snapshot of at most MaxEls elements of RankPool.        *)

NameOpts == { NoDict, [name |-> "Continue"], [name |-> "home"], [name |-> "Page"],
              [name |-> " "] }

\* The legacy targets: a role, a name or both, with or without exact and
\* not_contains
LegacyPool ==
    { r @@ n @@ e @@ c : r \in RoleOpts, n \in NameOpts \ {NoDict}, e \in ExactOpts,
                         c \in NotContainsOpts }
        \cup { r @@ e @@ c : r \in RoleOpts \ {NoDict}, e \in ExactOpts,
                             c \in NotContainsOpts }

\* the match form of a legacy target: its name as the text of the match
MatchForm(target) ==
    [match |-> [k \in (DOMAIN target \ {"name"})
                        \cup (IF "name" \in DOMAIN target THEN {"text"} ELSE {}) |->
                    IF k = "text" THEN target.name ELSE target[k]]]

ResolvePool == LegacyPool \cup { MatchForm(t) : t \in LegacyPool }

\* lines 313-362 and 375-393: what a step with this action and target acts on
\* when the last target is last_chosen_el
ActsOn(action, target, elements_min, last_chosen_el) ==
    LET step == [action |-> action, target |-> target]
        res == ResolveTarget(step, elements_min, last_chosen_el)
    IN  IF action = "click" /\ ~res.err
        THEN ClickRecheck(res, target, elements_min, last_chosen_el)
        ELSE res

ResolveCall(action, target, last_chosen_el) ==
    /\ ~r_called
    /\ r_step' = [action |-> action, target |-> target]
    /\ r_last' = last_chosen_el
    /\ r_res' = ActsOn(action, target, r_elements, last_chosen_el)
    /\ r_called' = TRUE
    /\ UNCHANGED <<r_elements, r_match, r_ranked>>

InitResolve == RankIdle /\ ExecIdle /\ MainIdle /\ SnapIdle /\ NormIdle

NextResolve ==
    \/ \E el \in RankPool : SnapshotAppend(el) /\ UNCHANGED <<xvars, mvars, svars, nvars>>
    \/ \E a \in {"type", "click"}, t \in ResolvePool, l \in LastPool :
           ResolveCall(a, t, l) /\ UNCHANGED <<xvars, mvars, svars, nvars>>

SpecResolve == InitResolve /\ [][NextResolve]_vars

---------------------------------------------------------------------------
(* run_plan_stepwise on its own: SpecExec calls it once on a snapshot and a  *)
(* plan and lets the page answer every primitive either way.                 *)

InitExec == RankIdle /\ ExecIdle /\ MainIdle /\ SnapIdle /\ NormIdle

NextExec ==
    \/ /\ \E snap \in SnapPool, n \in PlanLens, uv \in VarsPool, ob \in BOOLEAN :
              ExecCall(snap, n, uv, ob)
       /\ UNCHANGED <<rvars, mvars, svars, nvars>>
    \/ PlanExhausted /\ UNCHANGED <<rvars, mvars, svars, nvars>>
    \/ (\E step \in StepPool : StepBegin(step)) /\ UNCHANGED <<rvars, mvars, svars, nvars>>
    \/ (\E v \in BOOLEAN : IsVisible(v)) /\ UNCHANGED <<rvars, mvars, svars, nvars>>
    \/ (\E o \in TypeOutcomes, f \in BOOLEAN : TypeText(o, f)) /\ UNCHANGED <<rvars, mvars, svars, nvars>>
    \/ (\E o \in ClickOutcomes : Click(o)) /\ UNCHANGED <<rvars, mvars, svars, nvars>>
    \/ (\E u \in BOOLEAN : WaitUrl(u)) /\ UNCHANGED <<rvars, mvars, svars, nvars>>
    \/ (\E r \in BOOLEAN : AfterAction(r)) /\ UNCHANGED <<rvars, mvars, svars, nvars>>
    \/ (\E v \in BOOLEAN : FbIsVisible(v)) /\ UNCHANGED <<rvars, mvars, svars, nvars>>
    \/ (\E o \in ClickOutcomes : FbClick(o)) /\ UNCHANGED <<rvars, mvars, svars, nvars>>
    \/ (\E v \in BOOLEAN : FbHomeVisible(v)) /\ UNCHANGED <<rvars, mvars, svars, nvars>>
    \/ (\E o \in ClickOutcomes : FbHomeClick(o)) /\ UNCHANGED <<rvars, mvars, svars, nvars>>

SpecExec == InitExec /\ [][NextExec]_vars

---------------------------------------------------------------------------
(* Claims about the candidate resolver (SpecRank) *)

\* the normalized name of the i-th element of the returned list
RankedName(i) == _norm(r_ranked[i].name)

\* C6: when the match sets a role, every element _rank_candidates returns has a
\* normalized role equal to the normalized role of the match.
C6_RoleStrict ==
    (r_called /\ Truthy(MatchRole(r_match)))
        => \A i \in 1..Len(r_ranked) :
               _norm(r_ranked[i].role) = _norm(MatchRole(r_match))

\* C6 witness: a call whose match sets a role and a text returned the empty list
\* although the snapshot holds an element of another role with exactly that name.
C6_Witness ==
    /\ r_called
    /\ Truthy(MatchRole(r_match))
    /\ Truthy(MatchText(r_match))
    /\ r_ranked = <<>>
    /\ \E i \in 1..Len(r_elements) :
           /\ _norm(r_elements[i].name) = _norm(MatchText(r_match))
           /\ _norm(r_elements[i].role) # _norm(MatchRole(r_match))

\* C7: when the match sets exact, every returned element has a normalized name
\* equal to the normalized query text.
C7_ExactOnly ==
    (r_called /\ MatchExact(r_match))
        => \A i \in 1..Len(r_ranked) : RankedName(i) = _norm(MatchText(r_match))

\* C7 witness: an exact call returned an element while the snapshot also holds an
\* unblocked element whose name only starts with the query text.
C7_Witness ==
    /\ r_called
    /\ MatchExact(r_match)
    /\ Len(r_ranked) >= 1
    /\ \E i \in 1..Len(r_elements) :
           /\ StartsWith(_norm(r_elements[i].name), _norm(MatchText(r_match)))
           /\ _norm(r_elements[i].name) # _norm(MatchText(r_match))
           /\ ~_is_blocked(r_elements[i].name, MatchNotContains(r_match))

\* the blocklist entries C8 speaks of: the match's own and the default ones
C8_Entries ==
    Get(r_match, "not_contains", <<>>)
        \o <<"with google", "with apple", "with facebook", "with">>

\* C8 as stated: no returned element has a normalized name that contains an entry
\* of the match's not_contains list or of the default blocklist.
C8_NoEntryContained ==
    r_called
        => \A i \in 1..Len(r_ranked) :
               \A k \in 1..Len(C8_Entries) :
                   ~Contains(RankedName(i), C8_Entries[k])

\* C8 amended: the same for every entry that is not blank (an entry whose
\* normalized form is empty is skipped by _is_blocked), for the entry as written
\* and for its normalized form.
C8_NoNonBlankEntryContained ==
    r_called
        => \A i \in 1..Len(r_ranked) :
               \A k \in 1..Len(C8_Entries) :
                   LET entry == C8_Entries[k]
                   IN  _norm(entry) # ""
                           => /\ ~Contains(RankedName(i), entry)
                              /\ ~Contains(RankedName(i), _norm(entry))

\* C8 witness: a call without a not_contains list returned an element and left
\* out an element that passes the role and text tests and whose name contains
\* "with".
C8_Witness ==
    /\ r_called
    /\ "not_contains" \notin DOMAIN r_match
    /\ Len(r_ranked) >= 1
    /\ \E i \in 1..Len(r_elements) :
           /\ Contains(_norm(r_elements[i].name), "with")
           /\ TextScore(r_elements[i], r_match) > 0
           /\ ~(Truthy(MatchRole(r_match))
                  /\ _norm(MatchRole(r_match)) # _norm(r_elements[i].role))
           /\ \A j \in 1..Len(r_ranked) : r_ranked[j] # r_elements[i]

\* the distance of an element's box centre from the last target's, in half pixels
CenterDistance2(el, last_target) ==
    Hypot(Center2(el.bbox)[1] - Center2(last_target.bbox)[1],
          Center2(el.bbox)[2] - Center2(last_target.bbox)[2])

\* two returned elements with equal names and roles, both with a box
SameNameRoleBoxed(a, b) ==
    /\ a.name = b.name
    /\ a.role = b.role
    /\ a.bbox # <<>>
    /\ b.bbox # <<>>

\* C10 as stated: of two returned elements with equal names and roles and boxes,
\* at different distances from a boxed last target, the farther never precedes
\* the nearer.
C10_NearerFirst ==
    (r_called /\ r_last # NoDict /\ Get(r_last, "bbox", <<>>) # <<>>)
        => \A i, j \in 1..Len(r_ranked) :
               (i < j /\ SameNameRoleBoxed(r_ranked[i], r_ranked[j]))
                   => CenterDistance2(r_ranked[i], r_last)
                          <= CenterDistance2(r_ranked[j], r_last)

\* C10 amended: the same when the nearer of the two is less than 250 px (500 half
\* pixels) from the last target; from 250 px on both get the bonus 0 and keep
\* their snapshot order.
C10_NearerFirstWithin250 ==
    (r_called /\ r_last # NoDict /\ Get(r_last, "bbox", <<>>) # <<>>)
        => \A i, j \in 1..Len(r_ranked) :
               (i < j /\ SameNameRoleBoxed(r_ranked[i], r_ranked[j])
                      /\ CenterDistance2(r_ranked[j], r_last) < 500)
                   => CenterDistance2(r_ranked[i], r_last)
                          <= CenterDistance2(r_ranked[j], r_last)

\* C10 witness: the snapshot lists the farther of two such elements first and the
\* returned list has the nearer one first.
C10_Witness ==
    /\ r_called
    /\ r_last # NoDict
    /\ Get(r_last, "bbox", <<>>) # <<>>
    /\ Len(r_elements) = 2
    /\ r_ranked = <<r_elements[2], r_elements[1]>>
    /\ SameNameRoleBoxed(r_elements[1], r_elements[2])
    /\ CenterDistance2(r_elements[2], r_last) < CenterDistance2(r_elements[1], r_last)

---------------------------------------------------------------------------
(* main of run_gui_agent_loop.py: Spec runs the rounds of the while loop,    *)
(* each with its snapshots, its planner calls and its calls of               *)
(* run_plan_stepwise, whose steps are the actions above.                     *)

MaxRounds == 2

\* --prompt and --email of the command line
PromptArgs == {"", "click Continue"}

EmailArgs == {"", " a@b.com"}

\* what the user types at "Your instruction > " and at "Enter email to use: "
InputLines == {"Type my Email", " Exit", "quit"}

EmailLines == {"a@b.com"}

\* the steps of the plans plan_actions returns to main: those of StepPool that
\* type, end, wait, or click a uid
MainStepPool ==
    { s \in StepPool :
        \/ ActionOf(s) \in {"type", "end", "wait_url_contains"}
        \/ "uid" \in DOMAIN Get(s, "target", NoDict) }

\* m_events with one more entry
Event(e) == m_events' = Append(m_events, e)

\* lines 17-29: the state at the top of the first round
MainStart(prompt, email) ==
    /\ m_pc = "snapshot_pre"
    /\ round_id = 1
    /\ user_prompt = Strip(prompt)
    /\ email_value = Strip(email)
    /\ min_json = <<>>
    /\ plan_nsteps = 0
    /\ ok = FALSE
    /\ step_counter = 0
    /\ m_events = <<>>
    /\ out_dir = <<>>

\* line 34: min_json, _, png = snapshot_page(page, out_dir, label=label_pre)
SnapshotPre(snap) ==
    /\ m_pc = "snapshot_pre"
    /\ min_json' = snap
    /\ out_dir' = ("pre" :> snap)
    /\ Event("snapshot:pre")
    /\ m_pc' = "prompt"
    /\ UNCHANGED <<round_id, user_prompt, email_value, plan_nsteps, ok, step_counter>>
    /\ UNCHANGED xvars

\* lines 38-43: the instruction, read when none is pending; exit and quit leave
\* the loop (lines 84-85 close the browser); the email is asked for when the
\* instruction names it and none is known
ReadPrompt(line, email_line) ==
    /\ m_pc = "prompt"
    /\ LET prompt == IF user_prompt = "" THEN Strip(line) ELSE user_prompt
       IN  /\ user_prompt' = prompt
           /\ IF StrLower(prompt) \in {"exit", "quit"}
              THEN /\ m_pc' = "closed"
                   /\ UNCHANGED email_value
              ELSE /\ m_pc' = "plan"
                   /\ email_value' =
                          IF Contains(StrLower(prompt), "email") /\ email_value = ""
                          THEN Strip(email_line) ELSE email_value
    /\ UNCHANGED <<round_id, min_json, plan_nsteps, ok, step_counter, m_events, out_dir>>
    /\ UNCHANGED xvars

\* what the model answers to plan_actions: text that json.loads rejects, or a
\* JSON object whose "steps" is absent, is not a list, or is a list of steps
ReplyPool ==
    {[json |-> FALSE]}
        \cup {[json |-> TRUE, steps |-> [type |-> "NoneType"]],
              [json |-> TRUE, steps |-> [type |-> "str"]]}
        \cup {[json |-> TRUE, steps |-> [type |-> "list", len |-> n]] : n \in PlanLens}

\* agent_llm.py lines 118-127: the number of steps of the normalized plan: none
\* unless "steps" is a list, else the steps of the list
_normalize_plan(plan) ==
    IF plan.steps.type # "list" THEN 0 ELSE plan.steps.len

\* agent_llm.py lines 169-177: the empty plan when json.loads raises, else the
\* normalized plan
plan_actions(content) ==
    IF ~content.json THEN 0 ELSE _normalize_plan(content)

\* lines 46 and 69: plan = plan_actions(user_prompt, min_json, email_value);
\* lines 50 and 71: step_counter["i"] = 0
PlanCall(nsteps) ==
    /\ m_pc \in {"plan", "replan"}
    /\ plan_nsteps' = nsteps
    /\ step_counter' = 0
    /\ Event("plan")
    /\ m_pc' = IF m_pc = "plan" THEN "exec" ELSE "exec_retry"
    /\ UNCHANGED <<round_id, user_prompt, email_value, min_json, ok, out_dir>>
    /\ UNCHANGED xvars

\* lines 57-63 and 72-78: run_plan_stepwise(page, min_json, plan,
\* user_vars={"EMAIL": email_value}, on_after_action=after_each) is called
ExecStart ==
    /\ m_pc \in {"exec", "exec_retry"}
    /\ ExecCall(min_json, plan_nsteps, <<<<"EMAIL", email_value>>>>, TRUE)
    /\ Event("exec")
    /\ m_pc' = IF m_pc = "exec" THEN "run" ELSE "run_retry"
    /\ UNCHANGED <<round_id, user_prompt, email_value, min_json, plan_nsteps, ok,
                   step_counter, out_dir>>

\* lines 51-55: after_each counts the action and takes a snapshot of its own
AfterEach ==
    /\ step_counter' = step_counter + 1
    /\ Event("snapshot:after")
    /\ UNCHANGED <<m_pc, round_id, user_prompt, email_value, min_json, plan_nsteps, ok,
                   out_dir>>

\* every retry until the plan succeeds
AfterReturnRetrying(pc, ret) == IF ret THEN "next" ELSE "recover"

\* a recovery after every first execution
AfterReturnAlwaysRecovering(pc, ret) == IF pc = "run" THEN "recover" ELSE "next"

\* line 66: if not ok, after the first execution only
AfterReturn(pc, ret) == IF pc = "run" /\ ~ret THEN "recover" ELSE "next"

\* run_plan_stepwise returns to line 57 or to line 72
ExecReturn ==
    /\ m_pc \in {"run", "run_retry"}
    /\ x_pc = "done"
    /\ ok' = x_ret
    /\ Event(IF x_ret THEN "return:true" ELSE "return:false")
    /\ m_pc' = AfterReturn(m_pc, x_ret)
    /\ UNCHANGED <<round_id, user_prompt, email_value, min_json, plan_nsteps,
                   step_counter, out_dir>>
    /\ x_elements' = <<>>
    /\ x_nsteps' = 0
    /\ x_step' = NoDict
    /\ x_vars' = <<>>
    /\ x_observer' = FALSE
    /\ x_pc' = "idle"
    /\ x_i' = 1
    /\ x_last' = NoDict
    /\ x_calls' = <<>>
    /\ x_outcomes' = <<>>
    /\ x_ret' = FALSE
    /\ UNCHANGED <<x_sel, x_el, x_text, x_fb>>

\* SnapshotRecover with the snapshot it returns left unused
SnapshotRecoverDropped(snap) ==
    /\ m_pc = "recover"
    /\ min_json' = min_json
    /\ out_dir' = out_dir @@ ("recover" :> snap)
    /\ Event("snapshot:recover")
    /\ m_pc' = "replan"
    /\ UNCHANGED <<round_id, user_prompt, email_value, plan_nsteps, ok, step_counter>>
    /\ UNCHANGED xvars

\* line 67: min_json, _, _ = snapshot_page(page, out_dir, label="r<n>_recover")
SnapshotRecover(snap) ==
    /\ m_pc = "recover"
    /\ min_json' = snap
    /\ out_dir' = out_dir @@ ("recover" :> snap)
    /\ Event("snapshot:recover")
    /\ m_pc' = "replan"
    /\ UNCHANGED <<round_id, user_prompt, email_value, plan_nsteps, ok, step_counter>>
    /\ UNCHANGED xvars

\* lines 81-82: user_prompt = ""; round_id += 1; back to the top of the loop
NextRound ==
    /\ m_pc = "next"
    /\ round_id < MaxRounds
    /\ user_prompt' = ""
    /\ round_id' = round_id + 1
    /\ m_pc' = "snapshot_pre"
    /\ m_events' = <<>>
    /\ out_dir' = <<>>
    /\ UNCHANGED <<email_value, min_json, plan_nsteps, ok, step_counter>>
    /\ UNCHANGED xvars

\* snapshot_page or plan_actions raises: nothing in main catches it
Uncaught ==
    /\ m_pc \in {"snapshot_pre", "plan", "recover", "replan"}
    /\ m_pc' = "crashed"
    /\ UNCHANGED <<round_id, user_prompt, email_value, min_json, plan_nsteps, ok,
                   step_counter, m_events, out_dir>>
    /\ UNCHANGED xvars

Init ==
    /\ RankIdle
    /\ ExecIdle
    /\ SnapIdle
    /\ NormIdle
    /\ \E prompt \in PromptArgs, email \in EmailArgs : MainStart(prompt, email)

Next ==
    \/ (\E snap \in SnapPool : SnapshotPre(snap)) /\ UNCHANGED <<rvars, svars, nvars>>
    \/ (\E l \in InputLines, e \in EmailLines : ReadPrompt(l, e)) /\ UNCHANGED <<rvars, svars, nvars>>
    \/ (\E content \in ReplyPool : PlanCall(plan_actions(content)))
           /\ UNCHANGED <<rvars, svars, nvars>>
    \/ ExecStart /\ UNCHANGED <<rvars, svars, nvars>>
    \/ PlanExhausted /\ UNCHANGED <<rvars, mvars, svars, nvars>>
    \/ (\E step \in MainStepPool : StepBegin(step)) /\ UNCHANGED <<rvars, mvars, svars, nvars>>
    \/ (\E v \in BOOLEAN : IsVisible(v)) /\ UNCHANGED <<rvars, mvars, svars, nvars>>
    \/ (\E o \in TypeOutcomes, f \in BOOLEAN : TypeText(o, f))
           /\ UNCHANGED <<rvars, mvars, svars, nvars>>
    \/ (\E o \in ClickOutcomes : Click(o)) /\ UNCHANGED <<rvars, mvars, svars, nvars>>
    \/ (\E u \in BOOLEAN : WaitUrl(u)) /\ UNCHANGED <<rvars, mvars, svars, nvars>>
    \/ (\E r \in BOOLEAN : AfterAction(r)) /\ AfterEach /\ UNCHANGED <<rvars, svars, nvars>>
    \/ ExecReturn /\ UNCHANGED <<rvars, svars, nvars>>
    \/ (\E snap \in SnapPool : SnapshotRecover(snap)) /\ UNCHANGED <<rvars, svars, nvars>>
    \/ NextRound /\ UNCHANGED <<rvars, svars, nvars>>
    \/ Uncaught /\ UNCHANGED <<rvars, svars, nvars>>

Spec == Init /\ [][Next]_vars

---------------------------------------------------------------------------
(* Claims on run_plan_stepwise, checked under SpecExec *)

\* the step the for loop is at has been read from the plan
InStep == x_pc # "idle" /\ x_step # NoDict

\* run_plan_stepwise has returned False
ReturnedFalse == x_pc = "done" /\ ~x_ret

\* the last call of the step, when there is one
LastCall == x_calls[Len(x_calls)]

\* call k of the step failed and nothing before it in the step did; a fill
\* that raises and an observer that raises are passed over by the code
FirstFailure(k) ==
    /\ ~x_calls[k].ok
    /\ x_calls[k].op \notin {"fill", "observer"}
    /\ \A j \in 1..(k - 1) : x_calls[j].ok \/ x_calls[j].op = "fill"

\* the visibility wait of a click on a Home target: its timeout starts the Home
\* fallback and the step fails only when the fallback does
HomeClickWait(k) ==
    /\ x_calls[k].op = "wait_visible"
    /\ ActionOf(x_step) = "click"
    /\ Contains(HomeTestName(x_calls[k].obj, Get(x_step, "target", NoDict)), "home")

\* C3: as soon as a step fails (its target does not resolve, its visibility
\* wait times out or a primitive raises) run_plan_stepwise returns False: the
\* failed call is the last call made, the observer is not called for the step,
\* and the for loop has not moved on to a later step.
C3_FailFast ==
    /\ \A k \in 1..Len(x_calls) :
           FirstFailure(k) /\ ~HomeClickWait(k)
               => ReturnedFalse /\ k = Len(x_calls)
    /\ \A k \in 1..Len(x_outcomes) :
           x_outcomes[k] = "failed"
               => /\ ReturnedFalse
                  /\ k = Len(x_outcomes)
                  /\ k = x_i
    /\ ReturnedFalse
           => /\ x_outcomes # <<>>
              /\ x_outcomes[Len(x_outcomes)] = "failed"
              /\ \A k \in 1..Len(x_calls) :
                     x_calls[k].step = x_i /\ x_calls[k].op # "observer"

\* a primitive of the second step raised with a third step still to come
C3_Witness ==
    /\ ReturnedFalse
    /\ x_i = 2
    /\ x_i < x_nsteps
    /\ x_calls # <<>>
    /\ ~LastCall.ok
    /\ LastCall.op = "click"

\* C4: a step whose action is end makes run_plan_stepwise return True at once:
\* no target is resolved for it, no primitive and no observer is called for it,
\* and no later step is begun.
C4_EndReturnsTrue ==
    InStep /\ ActionOf(x_step) = "end"
        => /\ x_pc = "done"
           /\ x_ret
           /\ x_calls = <<>>
           /\ x_sel = None
           /\ x_el = NoDict
           /\ Len(x_outcomes) = x_i
           /\ x_outcomes[x_i] = "end"

\* an end step, carrying a target that resolves to nothing, as the second step
\* of a plan of three
C4_Witness ==
    /\ InStep
    /\ ActionOf(x_step) = "end"
    /\ "target" \in DOMAIN x_step
    /\ ResolveTarget(x_step, x_elements, x_last).err
    /\ x_pc = "done"
    /\ x_ret
    /\ x_i = 2
    /\ x_nsteps = 3

\* C5: a step whose action is none of type, click, wait_url_contains and end
\* never makes run_plan_stepwise return False, whatever target it carries or
\* lacks.
C5_UnsupportedNeverFails ==
    InStep /\ ActionOf(x_step) \notin {"type", "click", "wait_url_contains", "end"}
        => ~ReturnedFalse

\* name contains an entry of the list, both normalized
ContainsEntry(name, entries) ==
    \E i \in 1..Len(entries) :
        _norm(entries[i]) # "" /\ Contains(_norm(name), _norm(entries[i]))

\* the not_contains entries of a target: its own and those of its match
TargetEntries(target) ==
    Get(target, "not_contains", <<>>)
        \o Get(Get(target, "match", NoDict), "not_contains", <<>>)

\* C9: the element a click step clicks has a normalized name that contains no
\* entry of the not_contains list of the step's target.
C9_ClickedNotBlocked ==
    InStep /\ ActionOf(x_step) = "click"
        => \A k \in 1..Len(x_calls) :
               x_calls[k].op = "click" /\ x_calls[k].ok /\ x_calls[k].obj # NoDict
                   => ~ContainsEntry(Get(x_calls[k].obj, "name", ""),
                                     TargetEntries(Get(x_step, "target", NoDict)))

---------------------------------------------------------------------------
(* Claims on the recovery loop, checked under Spec *)

\* the entries of a list of events that main itself made: the snapshots
\* after_each takes inside run_plan_stepwise are left out
RECURSIVE OfMain(_)
OfMain(events) ==
    IF events = <<>> THEN <<>>
    ELSE IF Head(events) = "snapshot:after" THEN OfMain(Tail(events))
    ELSE <<Head(events)>> \o OfMain(Tail(events))

IsReturn(e) == e \in {"return:true", "return:false"}

\* the first execution of the round has returned
FirstReturned == \E k \in 1..Len(m_events) : IsReturn(m_events[k])

\* where in m_events the first execution returned
FirstReturnAt ==
    CHOOSE k \in 1..Len(m_events) :
        IsReturn(m_events[k]) /\ \A j \in 1..(k - 1) : ~IsReturn(m_events[j])

\* what main did in the round after its first execution returned
AfterFirstReturn == OfMain(SubSeq(m_events, FirstReturnAt + 1, Len(m_events)))

IsPrefix(s, t) == Len(s) <= Len(t) /\ s = SubSeq(t, 1, Len(s))

\* C1: in a round whose first execution returned False, main goes on with one
\* recovery snapshot, one more planner call and one more execution, in this
\* order and nothing else; when the round is over all three have happened and
\* ok is what the second execution returned, True or False.
C1_SingleRecovery ==
    FirstReturned /\ m_events[FirstReturnAt] = "return:false"
        => /\ \E second \in {"return:true", "return:false"} :
                  IsPrefix(AfterFirstReturn,
                           <<"snapshot:recover", "plan", "exec", second>>)
           /\ m_pc = "next"
                  => /\ Len(AfterFirstReturn) = 4
                     /\ ok = (AfterFirstReturn[4] = "return:true")

\* the second round is over, and both of its executions returned False
C1_Witness ==
    /\ m_pc = "next"
    /\ round_id = 2
    /\ ~ok
    /\ OfMain(m_events) = <<"snapshot:pre", "plan", "exec", "return:false",
                             "snapshot:recover", "plan", "exec", "return:false">>

\* C2: in a round whose first execution returned True, main takes no recovery
\* snapshot, calls the planner no second time and runs no second execution:
\* the round is over with ok True.
C2_NoRecoveryOnSuccess ==
    FirstReturned /\ m_events[FirstReturnAt] = "return:true"
        => /\ AfterFirstReturn = <<>>
           /\ m_pc = "next"
           /\ ok

\* a round whose only execution ran two steps and returned True is over
C2_Witness ==
    /\ m_pc = "next"
    /\ ok
    /\ step_counter = 2
    /\ OfMain(m_events) = <<"snapshot:pre", "plan", "exec", "return:true">>

---------------------------------------------------------------------------
(* Claims on the Home fallback and on the payload, checked under SpecExec *)

\* the step is a click on the plain legacy target {role: link, name: Home}
HomeStep(step) ==
    /\ ActionOf(step) = "click"
    /\ Get(step, "target", NoDict) = [role |-> "link", name |-> "Home"]

\* call k of the step is op, it succeeded, and it was made on an element of
\* that role and name
OkCallOn(k, op, role, name) ==
    /\ k \in 1..Len(x_calls)
    /\ x_calls[k].op = op
    /\ x_calls[k].ok
    /\ x_calls[k].obj # NoDict
    /\ _norm(x_calls[k].obj.role) = role
    /\ _norm(x_calls[k].obj.name) = _norm(name)

\* calls k-2..k: the element was seen visible, scrolled to and clicked
ClickedOk(k, role, name) ==
    /\ OkCallOn(k - 2, "wait_visible", role, name)
    /\ OkCallOn(k - 1, "scroll", role, name)
    /\ OkCallOn(k, "click", role, name)

\* the first visibility wait of the step timed out
FirstWaitTimedOut ==
    /\ x_calls # <<>>
    /\ x_calls[1].op = "wait_visible"
    /\ ~x_calls[1].ok

\* the step x_calls belongs to succeeded through the Home fallback, and call k
\* was its last primitive
FallbackSucceededAt(k) ==
    /\ \A j \in (k + 1)..Len(x_calls) : x_calls[j].op = "observer"
    /\ \/ x_pc = "after" /\ x_fb # NoFb
       \/ /\ x_pc \in {"step", "done"}
          /\ x_i > 1
          /\ Len(x_outcomes) = x_i - 1
          /\ x_outcomes[x_i - 1] = "ok_fallback"
          /\ x_calls[k].step = x_i - 1

\* C11: a click on {role: link, name: Home} whose Home link is not visible
\* succeeds through the nav-opener branch once a Menu button was seen visible
\* and clicked and the Home link was then seen visible and clicked, and through
\* the logo branch once a link named Adobe Express was seen visible and
\* clicked; no further primitive follows.
C11_HomeFallbackSucceeds ==
    InStep /\ HomeStep(x_step) /\ FirstWaitTimedOut
        => \A k \in 1..Len(x_calls) :
               /\ ClickedOk(k - 3, "button", "Menu") /\ ClickedOk(k, "link", "Home")
                      => FallbackSucceededAt(k)
               /\ ClickedOk(k, "link", "Adobe Express") => FallbackSucceededAt(k)

\* in a snapshot without any button the Home link stayed invisible and the
\* click on the Adobe Express link ended the step
C11_Witness ==
    /\ InStep
    /\ HomeStep(x_step)
    /\ x_elements = LogoSnap
    /\ x_pc = "after"
    /\ x_fb.b = 2
    /\ FirstWaitTimedOut
    /\ ClickedOk(Len(x_calls), "link", "Adobe Express")


\* the value that stands for <K> at the head of s, None when s starts with no
\* placeholder of user_vars
RECURSIVE HeadPlaceholder(_, _)
HeadPlaceholder(s, user_vars) ==
    IF user_vars = <<>> THEN None
    ELSE LET token == "<" \o Head(user_vars)[1] \o ">"
         IN  IF Len(s) >= Len(token) /\ SubSeq(s, 1, Len(token)) = token
             THEN Head(user_vars)
             ELSE HeadPlaceholder(s, Tail(user_vars))

\* s read once from left to right, each placeholder <K> of user_vars giving way
\* to the value of K, a value of None to the empty string
RECURSIVE Substituted(_, _)
Substituted(s, user_vars) ==
    IF s = "" THEN ""
    ELSE LET kv == HeadPlaceholder(s, user_vars)
         IN  IF kv = None THEN CharAt(s, 1) \o Substituted(Tail(s), user_vars)
             ELSE (IF kv[2] = None THEN "" ELSE kv[2])
                      \o Substituted(SubSeq(s, Len(kv[1]) + 3, Len(s)), user_vars)

\* the payload of a step as written in the plan: text, or value without a text
RawPayload(step) ==
    IF "text" \in DOMAIN step /\ step.text # None THEN step.text
    ELSE IF "value" \in DOMAIN step THEN step.value ELSE ""

---------------------------------------------------------------------------
(* snapshot_page of snapshot_runtime.py, from the DOM and accessibility       *)
(* nodes of the page to elements_min (lines 203-310). The nodes are the       *)
(* page's; SpecSnap draws them.                                               *)

\* A DOM node as DOM_SNAPSHOT_JS reports it, with the style and box that
\* _is_visible_like reads
DomNode(tag, name, attrs, css, y, visibility, frame_path) ==
    [tag |-> tag, name |-> name, attrs |-> attrs, css |-> css,
     bbox |-> [y |-> y, width |-> 40, height |-> 40],
     style |-> [display |-> "block", visibility |-> visibility],
     frame_path |-> frame_path]

CloseLabel == "aria-label" :> "Close"

\* Three buttons labelled Close in the main frame, two of them hidden at
\* different heights, and one in an iframe; a hidden button without a label, a
\* link without a name, and a div with the role of a link named Help
DomPool ==
    { DomNode("button", "Close", CloseLabel, "button:nth-of-type(1)", 10, "visible", <<>>),
      DomNode("button", "Close", CloseLabel, "button:nth-of-type(2)", 10, "hidden", <<>>),
      DomNode("button", "Close", CloseLabel, "button:nth-of-type(3)", 60, "hidden", <<>>),
      DomNode("button", "Close", CloseLabel, "button:nth-of-type(1)", 10, "visible",
              <<"iframe", 0>>),
      DomNode("button", None, NoDict, "button:nth-of-type(4)", 60, "hidden", <<>>),
      DomNode("a", None, "href" :> "/", "a:nth-of-type(1)", 100, "visible", <<>>),
      DomNode("div", "Help", "role" :> "link", "div:nth-of-type(1)", 100, "visible",
              <<>>) }

\* A node of ax_flat: _flatten_ax gives every node the frame path []
AxNode(role, name, description) ==
    [role |-> role, name |-> name, description |-> description, frame_path |-> <<>>]

\* Two buttons named Close, the role and name of one written otherwise; a link
\* that has a description only; a link named Home; a switch
AxPool ==
    { AxNode("button", "Close", None),
      AxNode("Button", " Close ", None),
      AxNode("link", None, "Close"),
      AxNode("link", "Home", None),
      AxNode("switch", "Dark mode", None) }

MaxDom == 2

MaxAx == 2

\* the sequences of at most n members of S
SeqsUpTo(S, n) == UNION { [1..k -> S] : k \in 0..n }

\* lines 15-21
_is_visible_like(node) ==
    LET style == Get(node, "style", NoDict)
        b == Get(node, "bbox", NoDict)
    IN  /\ Get(style, "display", None) # "none"
        /\ Get(style, "visibility", None) # "hidden"
        /\ Get(b, "width", 0) >= 1
        /\ Get(b, "height", 0) >= 1

\* _preferred_selector with the CSS path ahead of the attributes
PreferredSelectorCssFirst(tag, attrs, css) ==
    IF Truthy(css) THEN css
    ELSE IF Truthy(Get(attrs, "aria-label", None))
    THEN "[aria-label=\"" \o attrs["aria-label"] \o "\"]"
    ELSE IF tag = "input" /\ Truthy(Get(attrs, "name", None))
    THEN "input[name=\"" \o attrs["name"] \o "\"]"
    ELSE IF tag = "a" /\ Truthy(Get(attrs, "href", None))
    THEN "a[href=\"" \o attrs["href"] \o "\"]"
    ELSE None

\* lines 23-32
_preferred_selector(tag, attrs, css) ==
    IF Truthy(Get(attrs, "aria-label", None))
    THEN "[aria-label=\"" \o attrs["aria-label"] \o "\"]"
    ELSE IF tag = "input" /\ Truthy(Get(attrs, "name", None))
    THEN "input[name=\"" \o attrs["name"] \o "\"]"
    ELSE IF tag = "a" /\ Truthy(Get(attrs, "href", None))
    THEN "a[href=\"" \o attrs["href"] \o "\"]"
    ELSE IF Truthy(css) THEN css
    ELSE None

\* lines 34-36
_aria_selector(role, name) ==
    IF ~Truthy(role) \/ ~Truthy(name) THEN None
    ELSE "aria://" \o StrLower(Strip(role)) \o "::" \o Strip(name)

INTERACTIVE_ROLES ==
    {"button", "link", "textbox", "checkbox", "radio", "combobox", "menuitem",
     "switch", "tab", "listbox", "option"}

INTERACTIVE_TAGS == {"input", "button", "a", "select", "textarea", "label"}

\* lines 147-157; the records of full_elems carry no role_attr key
_is_interactive(e) ==
    LET tag == StrLower(OrElse(e.tag, ""))
        role_attr == StrLower(OrElse(Get(e.attrs, "role", None), ""))
    IN  /\ _is_visible_like(e)
        /\ \/ role_attr \in INTERACTIVE_ROLES
           \/ tag \in INTERACTIVE_TAGS
           \/ tag = "span" /\ role_attr = "link"
           \/ DOMAIN e.attrs \cap {"aria-label", "tabindex", "onclick", "href", "type",
                                   "data-react-aria-pressable"} # {}
           \/ \E k \in DOMAIN e.attrs : StartsWith(k, "data-social")

\* lines 10-13
_str_or_none(x) ==
    IF x = None THEN None
    ELSE IF Strip(x) # "" THEN Strip(x) ELSE None

\* the characters of the model's names in the order of their code points
CodePoints == " -/0123456789:ABCDEFGHIJKLMNOPQRSTUVWXYZ_abcdefghijklmnopqrstuvwxyz"

CodeOf(c) == CHOOSE i \in 1..Len(CodePoints) : CharAt(CodePoints, i) = c

\* a < b on str
RECURSIVE StrLess(_, _)
StrLess(a, b) ==
    IF b = "" THEN FALSE
    ELSE IF a = "" THEN TRUE
    ELSE IF CharAt(a, 1) = CharAt(b, 1) THEN StrLess(Tail(a), Tail(b))
    ELSE CodeOf(CharAt(a, 1)) < CodeOf(CharAt(b, 1))

\* set(s.split()): the maximal runs of characters that are not whitespace
RECURSIVE SplitFrom(_, _)
SplitFrom(s, word) ==
    IF s = "" THEN (IF word = "" THEN {} ELSE {word})
    ELSE IF IsSpace(CharAt(s, 1))
         THEN (IF word = "" THEN {} ELSE {word}) \cup SplitFrom(Tail(s), "")
         ELSE SplitFrom(Tail(s), word \o CharAt(s, 1))

TokenSet(s) == SplitFrom(s, "")

\* " ".join(sorted(tokens))
RECURSIVE SortedJoin(_)
SortedJoin(tokens) ==
    IF tokens = {} THEN ""
    ELSE LET first == CHOOSE t \in tokens : \A u \in tokens : u = t \/ StrLess(t, u)
         IN  IF tokens = {first} THEN first
             ELSE first \o " " \o SortedJoin(tokens \ {first})

\* the length of the longest common subsequence of two strings
LcsLen(a, b) ==
    LET lcs[i \in 0..Len(a), j \in 0..Len(b)] ==
            IF i = 0 \/ j = 0 THEN 0
            ELSE IF CharAt(a, i) = CharAt(b, j) THEN lcs[i - 1, j - 1] + 1
            ELSE Max(lcs[i - 1, j], lcs[i, j - 1])
    IN  lcs[Len(a), Len(b)]

\* the insertions and deletions that turn a into b
IndelDistance(a, b) == Len(a) + Len(b) - 2 * LcsLen(a, b)

\* a ratio p/q as the pair <<p, q>> with q > 0
Ratio(p, q) == <<p, q>>

RatioLess(r, t) == r[1] * t[2] < t[1] * r[2]

RatioMax(r, t) == IF RatioLess(r, t) THEN t ELSE r

\* 1 - dist / lensum, 1 for two empty strings
NormSim(dist, lensum) == IF lensum > 0 THEN Ratio(lensum - dist, lensum) ELSE Ratio(1, 1)

\* line 213: fuzz.token_set_ratio(s1, s2) / 100.0 of rapidfuzz, which compares
\* the words the two strings share and the words only one of them has
token_set_ratio(s1, s2) ==
    LET tokens_a == TokenSet(s1)
        tokens_b == TokenSet(s2)
        intersect == tokens_a \cap tokens_b
        diff_ab == SortedJoin(tokens_a \ tokens_b)
        diff_ba == SortedJoin(tokens_b \ tokens_a)
        sect_len == Len(SortedJoin(intersect))
        gap == IF sect_len # 0 THEN 1 ELSE 0
        sect_ab_len == sect_len + gap + Len(diff_ab)
        sect_ba_len == sect_len + gap + Len(diff_ba)
        result == NormSim(IndelDistance(diff_ab, diff_ba), sect_ab_len + sect_ba_len)
    IN  IF s1 = "" \/ s2 = "" \/ tokens_a = {} \/ tokens_b = {} THEN Ratio(0, 1)
        ELSE IF intersect # {} /\ (diff_ab = "" \/ diff_ba = "") THEN Ratio(1, 1)
        ELSE IF sect_len = 0 THEN result
        ELSE RatioMax(result,
                      RatioMax(NormSim(gap + Len(diff_ab), sect_len + sect_ab_len),
                               NormSim(gap + Len(diff_ba), sect_len + sect_ba_len)))

\* line 207
AxName(ax) ==
    OrElse(_str_or_none(ax.name), OrElse(_str_or_none(ax.description), ""))

\* token_set_ratio on every pair of names the pools hold
TokenSetTable ==
    [s1 \in { AxName(ax) : ax \in AxPool },
     s2 \in { OrElse(_str_or_none(dn.name), "") : dn \in DomPool } |->
         token_set_ratio(s1, s2)]

\* line 214: the roles match
RoleMatches(ax, dn) ==
    Truthy(ax.role) /\ ax.role = Get(dn.attrs, "role", None)

\* lines 212-215: sc = 0.85*text_s + 0.15*role_bonus with role_bonus 0.1 or 0,
\* in 1/2000
AlignScoreOf(ax, dn) ==
    LET dn_text == OrElse(dn.name, "")
        text_s == IF AxName(ax) # "" \/ dn_text # ""
                  THEN TokenSetTable[AxName(ax), dn_text] ELSE Ratio(0, 1)
        role_bonus == IF RoleMatches(ax, dn) THEN 1 ELSE 0
    IN  Ratio(1700 * text_s[1] + 30 * role_bonus * text_s[2], text_s[2])

\* line 196: n["name"] = _str_or_none(n.get("name"))
DomNodeOf(n) == [n EXCEPT !.name = _str_or_none(@)]

\* the score of every pair of nodes the pools hold
AlignTable ==
    [ax \in AxPool, dn \in { DomNodeOf(n) : n \in DomPool } |-> AlignScoreOf(ax, dn)]

AlignScore(ax, dn) == AlignTable[ax, dn]

\* lines 205 and 208: the visible-like DOM nodes of the frame of ax
SameFrame(dom_nodes, ax) ==
    { i \in 1..Len(dom_nodes) :
          _is_visible_like(dom_nodes[i]) /\ dom_nodes[i].frame_path = ax.frame_path }

\* lines 209-217: the first of the nodes of same_frame that score highest, 0
\* for None
BestOf(dom_nodes, ax) ==
    LET same_frame == SameFrame(dom_nodes, ax)
    IN  IF same_frame = {} THEN 0
        ELSE CHOOSE i \in same_frame :
                 \A j \in same_frame :
                     /\ ~RatioLess(AlignScore(ax, dom_nodes[i]), AlignScore(ax, dom_nodes[j]))
                     /\ j < i => RatioLess(AlignScore(ax, dom_nodes[j]),
                                           AlignScore(ax, dom_nodes[i]))

\* line 218: best is not None and best_s >= 0.5
Aligned(dom_nodes, ax) ==
    /\ BestOf(dom_nodes, ax) # 0
    /\ ~RatioLess(AlignScore(ax, dom_nodes[BestOf(dom_nodes, ax)]), Ratio(1000, 1))

\* lines 204-219: ax2dom
AlignAx(dom_nodes, ax_flat) ==
    [ai \in { k \in 1..Len(ax_flat) : Aligned(dom_nodes, ax_flat[k]) } |->
         BestOf(dom_nodes, ax_flat[ai])]

\* lines 235-237: the accessibility node written last into the ax of record di
AxOf(ax_flat, ax2dom, di) ==
    LET onto == { ai \in DOMAIN ax2dom : ax2dom[ai] = di }
    IN  IF onto = {} THEN NoDict
        ELSE LET ax == ax_flat[CHOOSE ai \in onto : \A k \in onto : k <= ai]
             IN  [role |-> ax.role, name |-> ax.name, description |-> ax.description]

\* lines 224-238: the record of full_elems made of DOM node dn, the i-th one,
\* whose uid (line 198) no other node has
FullRecord(dn, i, ax) ==
    [uid |-> <<"dom", i>>, tag |-> dn.tag, role |-> Get(dn.attrs, "role", None), name |-> dn.name,
     attrs |-> dn.attrs, css |-> dn.css, bbox |-> dn.bbox, style |-> dn.style,
     frame_path |-> dn.frame_path, ax |-> ax,
     selector_pref |-> _preferred_selector(dn.tag, dn.attrs, dn.css)]

\* name[:140]
Truncate(name) == SubSeq(name, 1, Min(Len(name), 140))

\* lines 245-253 and 299-308: the record of elements_min made of record e
MinItem(e) ==
    LET tag == StrLower(OrElse(e.tag, ""))
    IN  [uid |-> e.uid,
         role |-> OrElse(e.role, Get(e.ax, "role", None)),
         tag |-> tag,
         name |-> Truncate(OrElse(OrElse(e.name, Get(e.ax, "name", None)), "")),
         selector_pref |-> OrElse(e.selector_pref,
                                  _preferred_selector(tag, e.attrs, e.css)),
         bbox |-> e.bbox]

\* lines 270-279: the record of elements_min made of accessibility node ai
AxItem(ax, ai) ==
    LET ax_role == StrLower(OrElse(ax.role, ""))
        ax_name == Strip(OrElse(ax.name, ""))
    IN  [uid |-> <<"ax", ai>>, role |-> ax_role, tag |-> None,
         name |-> Truncate(ax_name),
         selector_pref |-> _aria_selector(ax_role, ax_name), bbox |-> NoDict]

\* lines 254 and 280
KeyOf(item) == <<item.role, item.name, item.selector_pref>>

\* snapshot_page is called on a page with these DOM nodes and these
\* accessibility nodes: lines 190-241
SnapshotCall(dom_raw, ax_flat) ==
    LET dom_nodes == [i \in 1..Len(dom_raw) |-> DomNodeOf(dom_raw[i])]
        ax2dom == AlignAx(dom_nodes, ax_flat)
    IN  /\ s_pc = "idle"
        /\ s_full' = [i \in 1..Len(dom_nodes) |->
                          FullRecord(dom_nodes[i], i, AxOf(ax_flat, ax2dom, i))]
        /\ s_ax' = ax_flat
        /\ s_ax2dom' = ax2dom
        /\ s_pc' = "dom"
        /\ s_i' = 1
        /\ s_seen' = {}
        /\ s_minimal' = <<>>

\* a record is added to minimal unless its key was seen: lines 254-258, 280-284
AddUnseen(item) ==
    IF KeyOf(item) \in s_seen THEN UNCHANGED <<s_seen, s_minimal>>
    ELSE /\ s_seen' = s_seen \cup {KeyOf(item)}
         /\ s_minimal' = Append(s_minimal, item)

\* lines 242-258: one record of full_elems
DomRecord ==
    /\ s_pc = "dom"
    /\ s_i <= Len(s_full)
    /\ IF ~_is_interactive(s_full[s_i]) THEN UNCHANGED <<s_seen, s_minimal>>
       ELSE AddUnseen(MinItem(s_full[s_i]))
    /\ s_i' = s_i + 1
    /\ UNCHANGED <<s_full, s_ax, s_ax2dom, s_pc>>

\* the loop of line 242 is over
DomLoopEnd ==
    /\ s_pc = "dom"
    /\ s_i > Len(s_full)
    /\ s_pc' = "ax"
    /\ s_i' = 1
    /\ UNCHANGED <<s_full, s_ax, s_ax2dom, s_seen, s_minimal>>

AxRoles ==
    {"button", "link", "textbox", "combobox", "tab", "menuitem", "checkbox", "radio",
     "listbox", "option"}

\* lines 261-284: one accessibility node
AxRecord ==
    /\ s_pc = "ax"
    /\ s_i <= Len(s_ax)
    /\ LET item == AxItem(s_ax[s_i], s_i)
       IN  IF \/ s_i \in DOMAIN s_ax2dom
              \/ item.role = "" \/ item.name = "" \/ item.role \notin AxRoles
           THEN UNCHANGED <<s_seen, s_minimal>>
           ELSE AddUnseen(item)
    /\ s_i' = s_i + 1
    /\ UNCHANGED <<s_full, s_ax, s_ax2dom, s_pc>>

\* the loop of line 261 is over
AxLoopEnd ==
    /\ s_pc = "ax"
    /\ s_i > Len(s_ax)
    /\ s_pc' = "last"
    /\ UNCHANGED <<s_full, s_ax, s_ax2dom, s_i, s_seen, s_minimal>>

\* lines 290-298: (-area, y) of the records with a tag of button, a or input
\* and a name, in the order of full_elems
CandKey(e) ==
    LET b == e.bbox
    IN  [negarea |-> 0 - (Max(0, Get(b, "width", 0)) * Max(0, Get(b, "height", 0))),
         y |-> Get(b, "y", 1000000000), e |-> e]

IsCand(e) ==
    /\ StrLower(OrElse(e.tag, "")) \in {"button", "a", "input"}
    /\ Truthy(OrElse(e.name, Get(e.ax, "name", None)))

RECURSIVE Cands(_)
Cands(full) ==
    IF full = <<>> THEN <<>>
    ELSE (IF IsCand(Head(full)) THEN <<CandKey(Head(full))>> ELSE <<>>)
             \o Cands(Tail(full))

CandLess(a, b) == a.negarea < b.negarea \/ (a.negarea = b.negarea /\ a.y < b.y)

\* two tuples equal in (-area, y): sorted compares their records, which are
\* dicts, and raises TypeError
CandTie(cands) ==
    \E i, j \in 1..Len(cands) :
        i < j /\ cands[i].negarea = cands[j].negarea /\ cands[i].y = cands[j].y

\* sorted(cands) for tuples no two of which are equal in (-area, y)
RECURSIVE SortedCands(_)
SortedCands(cands) ==
    IF cands = <<>> THEN <<>>
    ELSE LET k == CHOOSE i \in 1..Len(cands) :
                      \A j \in 1..Len(cands) : j # i => CandLess(cands[i], cands[j])
         IN  <<cands[k]>>
                 \o SortedCands(SubSeq(cands, 1, k - 1) \o SubSeq(cands, k + 1, Len(cands)))

\* lines 287-310: the last resort, no record of which is looked up in seen
LastResort ==
    /\ s_pc = "last"
    /\ LET cands == Cands(s_full)
       IN  IF s_minimal # <<>> \/ s_full = <<>>
           THEN s_pc' = "done" /\ UNCHANGED s_minimal
           ELSE IF CandTie(cands)
           THEN s_pc' = "raised" /\ UNCHANGED s_minimal
           ELSE /\ s_pc' = "done"
                /\ s_minimal' =
                       LET sorted == SortedCands(cands)
                       IN  [i \in 1..Min(Len(sorted), 10) |-> MinItem(sorted[i].e)]
    /\ UNCHANGED <<s_full, s_ax, s_ax2dom, s_i, s_seen>>

InitSnap == RankIdle /\ ExecIdle /\ MainIdle /\ SnapIdle /\ NormIdle

NextSnap ==
    \/ /\ s_pc = "idle"
       /\ \E dom_raw \in SeqsUpTo(DomPool, MaxDom), ax_flat \in SeqsUpTo(AxPool, MaxAx) :
              SnapshotCall(dom_raw, ax_flat)
       /\ UNCHANGED <<rvars, xvars, mvars, nvars>>
    \/ DomRecord /\ UNCHANGED <<rvars, xvars, mvars, nvars>>
    \/ DomLoopEnd /\ UNCHANGED <<rvars, xvars, mvars, nvars>>
    \/ AxRecord /\ UNCHANGED <<rvars, xvars, mvars, nvars>>
    \/ AxLoopEnd /\ UNCHANGED <<rvars, xvars, mvars, nvars>>
    \/ LastResort /\ UNCHANGED <<rvars, xvars, mvars, nvars>>

SpecSnap == InitSnap /\ [][NextSnap]_vars

\* C13: no two records of the elements_min that snapshot_page returns share the
\* same (role, name, selector_pref), whichever of the three paths made them.
C13_NoDuplicateTriples ==
    s_pc = "done"
        => \A i, j \in 1..Len(s_minimal) :
               i # j => KeyOf(s_minimal[i]) # KeyOf(s_minimal[j])

\* the same for the snapshots whose records come from the DOM records and the
\* accessibility nodes, not from the last resort
C13_NoDuplicateTriplesSeen ==
    (s_pc = "done" /\ Len(s_minimal) = Cardinality(s_seen))
        => \A i, j \in 1..Len(s_minimal) :
               i # j => KeyOf(s_minimal[i]) # KeyOf(s_minimal[j])


---------------------------------------------------------------------------
(* _norm on its own: SpecNorm draws a string and calls _norm on it, then on  *)
(* what the call before returned.                                            *)

NormAlphabet == {"a", "B", " ", "\t"}

MaxNormLen == 4

MaxNormCalls == 2

\* the strings of at most n characters of NormAlphabet
RECURSIVE StringsUpTo(_)
StringsUpTo(n) ==
    IF n = 0 THEN {""}
    ELSE LET shorter == StringsUpTo(n - 1)
         IN  shorter \cup {s \o c : s \in shorter, c \in NormAlphabet}

\* Optional[str]
NormInputs == {None} \cup StringsUpTo(MaxNormLen)

\* _norm(s) is called on n_s, or on the result of the call before
NormCall ==
    /\ Len(n_out) < MaxNormCalls
    /\ n_out' = Append(n_out, _norm(IF n_out = <<>> THEN n_s ELSE n_out[Len(n_out)]))
    /\ UNCHANGED n_s

InitNorm ==
    /\ RankIdle /\ ExecIdle /\ MainIdle /\ SnapIdle
    /\ n_s \in NormInputs
    /\ n_out = <<>>

NextNorm == NormCall /\ UNCHANGED <<rvars, xvars, mvars, svars>>

SpecNorm == InitNorm /\ [][NextNorm]_vars

\* C14: _norm(_norm(n)) = _norm(n) for every string n, None and the empty string
\* included.
C14_NormIdempotent ==
    \A i \in 2..Len(n_out) : n_out[i] = n_out[1]

\* upper case and a run of two different blanks inside the string
C14_Witness ==
    /\ n_s = "B \ta"
    /\ n_out = <<"b a", "b a">>


---------------------------------------------------------------------------
(* Claims on exceptions and on the observer, checked under SpecExec *)

\* call k is the first call of the step that did not go through
FirstRaise(k) ==
    /\ ~x_calls[k].ok
    /\ \A j \in 1..(k - 1) : x_calls[j].ok

\* the step has failed and with it the call: nothing was done after call k
FailedAt(k) ==
    /\ ReturnedFalse
    /\ k = Len(x_calls)
    /\ Len(x_outcomes) = x_i
    /\ x_outcomes[x_i] = "failed"

\* the primitives that raise, as opposed to the visibility wait, which answers
\* False on its timeout
RaisingOps == {"scroll", "click", "type", "wait_url"}

ObserverRaised ==
    x_calls # <<>> /\ LastCall.op = "observer" /\ ~LastCall.ok

\* C16: what the observer raises changes nothing. From the point where a step
\* has succeeded the loop goes on to the next step with the step counted as
\* succeeded, the return value and last_chosen_el as they were and the step's
\* locals cleared, whether the observer raises or not; and whenever the observer
\* has raised, the loop is at the next step or has returned True.
C16_ObserverRaiseIgnored ==
    /\ [](ObserverRaised
             => /\ x_pc = "step" \/ (x_pc = "done" /\ x_ret)
                /\ Len(x_outcomes) = x_i - 1
                /\ x_outcomes[x_i - 1] \in {"ok", "ok_fallback"})
    /\ [][x_pc = "after"
             => /\ x_pc' = "step"
                /\ x_i' = x_i + 1
                /\ x_outcomes' = Append(x_outcomes,
                                        IF x_fb = NoFb THEN "ok" ELSE "ok_fallback")
                /\ <<x_ret', x_last'>> = <<x_ret, x_last>>
                /\ <<x_sel', x_el', x_text', x_fb'>> = <<None, NoDict, "", NoFb>>
                /\ SubSeq(x_calls', 1, Len(x_calls)) = x_calls]_vars

\* the observer raised after the first step of a longer plan, and the loop is
\* at the second step
C16_Witness ==
    /\ ObserverRaised
    /\ x_pc = "step"
    /\ x_i = 2
    /\ x_i <= x_nsteps
    /\ x_outcomes = <<"ok">>


---------------------------------------------------------------------------
(* Claims on the recovery, checked under Spec *)

\* the records of a list of elements
ElementsOf(elements_min) == {elements_min[i] : i \in 1..Len(elements_min)}

\* the elements the running call of run_plan_stepwise has chosen or acted on
UsedElements ==
    ({x_el, x_last} \cup {x_calls[k].obj : k \in {j \in 1..Len(x_calls) :
                                                    x_calls[j].op # "observer"}})
        \ {NoDict}

\* main is between the first planner call of the round and the return of the
\* last call of run_plan_stepwise
Attempting == m_pc \in {"exec", "run", "recover", "replan", "exec_retry", "run_retry"}

\* C17: the second execution of a round works on the elements_min of the
\* recovery snapshot and on nothing else: every element it chooses or acts on is
\* a record of that snapshot, whatever the first snapshot held; its plan comes
\* from the planner call made between that snapshot and the execution, and the
\* instruction is the one of the first attempt.
C17_SecondRunOnRecoverySnapshot ==
    /\ [](m_pc = "run_retry"
             => /\ "recover" \in DOMAIN out_dir
                /\ x_elements = out_dir["recover"]
                /\ UsedElements \subseteq ElementsOf(out_dir["recover"])
                /\ \E k \in 1..Len(m_events) :
                       /\ SubSeq(m_events, k, k + 2) = <<"snapshot:recover", "plan", "exec">>
                       /\ \A j \in (k + 3)..Len(m_events) :
                              m_events[j] = "snapshot:after")
    /\ [][Attempting => user_prompt' = user_prompt]_vars

\* the recovery snapshot differs from the first one, and the second execution
\* has typed into an element that only the recovery snapshot holds
C17_Witness ==
    /\ m_pc = "run_retry"
    /\ out_dir["pre"] = NavSnap
    /\ out_dir["recover"] = LoginSnap
    /\ x_el = EmailBox
    /\ x_calls # <<>>
    /\ LastCall.op = "type"
    /\ LastCall.ok


---------------------------------------------------------------------------
(* Claims on the URL wait, the observer and the order of the target shapes,  *)
(* checked under SpecExec                                                    *)

\* the step the loop is at, or has just left, counts as succeeded
StepSucceeded ==
    \/ x_pc = "after"
    \/ /\ x_pc \in {"step", "done"}
       /\ Len(x_outcomes) = x_i - 1
       /\ x_outcomes[x_i - 1] \in {"ok", "ok_fallback"}

\* what a wait_url_contains step does given its payload after substitution:
\* with a payload the URL wait is called on it and the step succeeds or fails as
\* the wait does; without one the step fails and the wait is not called
WaitUrlOutcome(want) ==
    IF Truthy(want)
    THEN \/ x_pc = "wait_url" /\ x_calls = <<>>
         \/ /\ x_calls # <<>>
            /\ x_calls[1].op = "wait_url"
            /\ x_calls[1].arg = want
            /\ IF x_calls[1].ok THEN StepSucceeded ELSE FailedAt(1)
    ELSE FailedAt(0)

\* C18: a wait_url_contains step with a non-empty payload succeeds when the URL
\* comes to contain the payload within the timeout and fails when the wait times
\* out; with an empty payload it fails without the URL wait being called.
C18_WaitUrlOutcome ==
    InStep /\ ActionOf(x_step) = "wait_url_contains"
        => WaitUrlOutcome(StepText(x_step, x_vars))

\* the same for the wait_url_contains steps that carry a target that resolves
C18_WaitUrlOutcomeWithTarget ==
    (InStep /\ ActionOf(x_step) = "wait_url_contains"
        /\ ~ResolveTarget(x_step, x_elements, x_last).err)
        => WaitUrlOutcome(StepText(x_step, x_vars))


\* the positions of x_calls at which the observer was called
ObserverCalls == {k \in 1..Len(x_calls) : x_calls[k].op = "observer"}

\* the loop has left the step: it is at the next one or has returned
StepLeft == x_pc \in {"step", "done"} /\ Len(x_outcomes) >= x_i - 1

\* the observer is called at most once for a step, as the last thing the step
\* does, and, given an observer, exactly once for a step that succeeded and
\* never for another; its first argument is the action of the step
ObserverOncePerSuccess ==
    LET called == x_calls # <<>> /\ LastCall.op = "observer"
    IN  /\ \A k \in 1..(Len(x_calls) - 1) : x_calls[k].op # "observer"
        /\ called
               => /\ x_observer
                  /\ StepSucceeded
                  /\ StepLeft
                  /\ ActionOf(x_step) \in {"type", "click", "wait_url_contains"}
                  /\ LastCall.arg = ActionOf(x_step)
                  /\ \A k \in 1..(Len(x_calls) - 1) : x_calls[k].step = LastCall.step
        /\ (x_observer /\ InStep /\ StepLeft /\ StepSucceeded) => called
        /\ x_pc = "after" => ~called

\* C19 as stated: the observer is called once for each type, click and
\* wait_url_contains step that succeeds and for no other step, after the
\* primitives of the step, with the action and the target of the step.
C19_ObserverGetsStepTarget ==
    /\ ObserverOncePerSuccess
    /\ ObserverCalls # {} => LastCall.obj = Get(x_step, "target", NoDict)

\* C19: the observer is called once for each type, click and wait_url_contains
\* step that succeeds and for no other step, after the primitives of the step,
\* with the action and, for type and click, the target of the step; after a URL
\* wait it is handed {"value": payload} in the place of the target.
C19_ObserverOncePerSuccess ==
    /\ ObserverOncePerSuccess
    /\ ObserverCalls # {}
           => LastCall.obj =
                  IF ActionOf(x_step) = "wait_url_contains"
                  THEN [value |-> Substituted(RawPayload(x_step), x_vars)]
                  ELSE Get(x_step, "target", NoDict)

\* a click that succeeded through the Home fallback, the observer called after
\* the clicks of the fallback
C19_Witness ==
    /\ InStep
    /\ x_pc = "step"
    /\ x_outcomes[x_i - 1] = "ok_fallback"
    /\ ObserverCalls = {Len(x_calls)}
    /\ LastCall.arg = "click"
    /\ LastCall.obj = [role |-> "link", name |-> "Home"]
    /\ Len(x_calls) > 1
    /\ x_calls[Len(x_calls) - 1].op = "click"


\* the rules whose shape the target, or the step, has: 1 selector, 2 uid,
\* 3 match, 4 role/name with not_contains or exact, 5 role/name, 6 the role and
\* name of the step itself
ShapeRules(target, step) ==
    LET keys == DOMAIN target
    IN  (IF "selector" \in keys THEN {1} ELSE {})
            \cup (IF "uid" \in keys THEN {2} ELSE {})
            \cup (IF "match" \in keys THEN {3} ELSE {})
            \cup (IF {"role", "name"} \cap keys # {} /\ {"not_contains", "exact"} \cap keys # {}
                  THEN {4} ELSE {})
            \cup (IF {"role", "name"} \cap keys # {} THEN {5} ELSE {})
            \cup (IF Truthy(Get(step, "name", None)) /\ Truthy(Get(step, "role", None))
                  THEN {6} ELSE {})

\* what rule r alone makes of the target
ByRule(r, target, step, elements_min, last_chosen_el) ==
    CASE r = 1 -> Resolved(target.selector, NoDict)
      [] r = 2 -> ResolveChosen(_find_element_by_uid(elements_min, target.uid))
      [] r = 3 -> FirstRanked(_rank_candidates(elements_min, target.match, last_chosen_el))
      [] r = 4 -> FirstRanked(_rank_candidates(elements_min, LegacyMatch(target),
                                               last_chosen_el))
      [] r = 5 -> ResolveChosen(_find_by_match(elements_min, Get(target, "role", None),
                                               Get(target, "name", None)))
      [] r = 6 -> Resolved("aria://" \o _norm(step.role) \o "::" \o step.name, NoDict)

\* the earliest rule that applies decides, alone
ByEarliestRule(target, step, elements_min, last_chosen_el) ==
    LET rules == ShapeRules(target, step)
    IN  IF rules = {} THEN ResolveError
        ELSE WithSelector(ByRule(CHOOSE r \in rules : \A q \in rules : r <= q,
                                 target, step, elements_min, last_chosen_el))

\* the selector and the element a result stands for
Outcome(res) == <<res.selector, res.chosen_el>>

\* C20: the target of a step is resolved by the earliest rule whose shape it has,
\* in the order selector, uid, match, role/name with not_contains or exact,
\* plain role/name, role and name of the step; the later shapes of the target
\* play no part: the step goes on with what that rule gives, and fails before
\* any primitive exactly when that rule gives nothing. Read where the
\* resolution has just been done, before the step's first primitive.
C20_EarliestRuleOnly ==
    (InStep /\ x_calls = <<>> /\ ActionOf(x_step) \in {"type", "click"})
        => LET target == Get(x_step, "target", NoDict)
               res == ByEarliestRule(target, x_step, x_elements, x_last)
           IN  /\ res.err <=> FailedAt(0)
               /\ x_pc = "visible"
                      => /\ ~res.err
                         /\ <<x_sel, x_el>> =
                                IF ActionOf(x_step) = "click"
                                THEN Outcome(ClickRecheck(res, target, x_elements, x_last))
                                ELSE Outcome(res)

\* a click on a target with a selector and a uid that the snapshot does not
\* hold has gone through on the selector
C20_Witness ==
    /\ InStep
    /\ Get(x_step, "target", NoDict) = [selector |-> "#submit", uid |-> "zz"]
    /\ _find_element_by_uid(x_elements, "zz") = NoDict
    /\ x_sel = "#submit"
    /\ x_calls # <<>>
    /\ LastCall.op = "click"
    /\ LastCall.sel = "#submit"
    /\ LastCall.ok


---------------------------------------------------------------------------
(* Claims on the steps that resolve nothing or see nothing, checked under    *)
(* SpecExec                                                                  *)

\* the target gives no selector: its uid is in no record of the snapshot, its
\* match or its masked role/name ranks nothing, its plain role/name finds
\* nothing, or neither the target nor the step has a shape to go by
NothingResolved(target, step, elements_min, last_chosen_el) ==
    LET keys == DOMAIN target
        named == {"role", "name"} \cap keys # {}
        masked == {"not_contains", "exact"} \cap keys # {}
    IN  /\ "selector" \notin keys
        /\ IF "uid" \in keys
           THEN \A i \in 1..Len(elements_min) :
                    Get(elements_min[i], "uid", None) # target.uid
           ELSE IF "match" \in keys
           THEN _rank_candidates(elements_min, target.match, last_chosen_el) = <<>>
           ELSE IF named /\ masked
           THEN _rank_candidates(elements_min, LegacyMatch(target), last_chosen_el) = <<>>
           ELSE IF named
           THEN _find_by_match(elements_min, Get(target, "role", None),
                               Get(target, "name", None)) = NoDict
           ELSE ~(Truthy(Get(step, "name", None)) /\ Truthy(Get(step, "role", None)))

\* no primitive was called for the step and nothing was chosen for it
StepUntouched == x_calls = <<>> /\ x_sel = None /\ x_el = NoDict

\* C21: a type or click step whose target resolution gives no selector fails,
\* run_plan_stepwise returns False, and no primitive has been called for the
\* step: wherever the step stands with no primitive called yet, it has failed.
C21_UnresolvedFailsUntouched ==
    (InStep /\ ActionOf(x_step) \in {"type", "click"}
        /\ x_calls = <<>>
        /\ NothingResolved(Get(x_step, "target", NoDict), x_step, x_elements, x_last))
        => FailedAt(0) /\ StepUntouched

\* a type step whose match ranks nothing in the snapshot of a navigation page
C21_Witness ==
    /\ InStep
    /\ ActionOf(x_step) = "type"
    /\ "match" \in DOMAIN Get(x_step, "target", NoDict)
    /\ x_elements = NavSnap
    /\ _rank_candidates(x_elements, x_step.target.match, x_last) = <<>>
    /\ FailedAt(0)
    /\ StepUntouched


---------------------------------------------------------------------------
(* Claims on the visibility wait and the primitives that follow it, checked  *)
(* under SpecExec                                                            *)

\* the primitives that act on an element: click, fill("") and type(text)
ActingOps == {"click", "fill", "type"}

\* call k of the step was made after a visibility wait on its selector succeeded
WaitedFor(k) ==
    \E j \in 1..(k - 1) :
        /\ x_calls[j].op = "wait_visible"
        /\ x_calls[j].sel = x_calls[k].sel
        /\ x_calls[j].ok

\* the visibility wait on the target of the step, the first call of the step,
\* timed out
TargetWaitTimedOut ==
    /\ x_calls # <<>>
    /\ x_calls[1].op = "wait_visible"
    /\ ~x_calls[1].ok

\* C22: in a type or click step every click, fill and type primitive is called
\* on a selector on which a visibility wait succeeded earlier in the step, and a
\* type step whose visibility wait timed out has failed and entered no text.
C22_ActsOnlyAfterVisible ==
    /\ \A k \in 1..Len(x_calls) :
           (x_calls[k].op \in ActingOps /\ InStep /\ ActionOf(x_step) \in {"type", "click"})
               => WaitedFor(k)
    /\ (TargetWaitTimedOut /\ InStep /\ ActionOf(x_step) = "type")
           => /\ FailedAt(1)
              /\ \A k \in 1..Len(x_calls) : x_calls[k].op \notin ActingOps

C22_Witness ==
    /\ InStep
    /\ ActionOf(x_step) = "type"
    /\ \E k \in 1..Len(x_calls) :
           x_calls[k].op = "type" /\ x_calls[k].ok /\ WaitedFor(k)

C22_WitnessTimedOut ==
    InStep /\ ActionOf(x_step) = "type" /\ TargetWaitTimedOut /\ FailedAt(1)

C22_WitnessFallback ==
    /\ InStep
    /\ \E k \in 1..Len(x_calls) :
           x_calls[k].op = "click" /\ x_calls[k].sel # x_calls[1].sel /\ WaitedFor(k)


\* the primitives of _type_text, in the order of lines 179-188
TypeOrder == <<"scroll", "click", "fill", "type">>

\* the calls _type_text made in the step
IsTypePrimitive(call) == call.op \in {"scroll", "click", "fill", "type"}

TypePrimitives == SelectSeq(x_calls, IsTypePrimitive)

\* the target of the type step was found visible and _type_text was entered
TypeTextEntered ==
    /\ InStep
    /\ Len(x_calls) >= 2
    /\ x_calls[1].op = "wait_visible"
    /\ x_calls[1].ok
    /\ IsTypePrimitive(x_calls[2])
    /\ ActionOf(x_step) = "type"

\* C23: a type step on a visible target calls scroll, click, fill, type in that
\* order on the target; a fill that fails is followed by the type call all the
\* same and does not fail the step, the step succeeds when scroll, click and
\* type succeeded, and a scroll, click or type that fails is the last call of
\* the step, which has failed.
C23_TypeOrderAndClear ==
    TypeTextEntered =>
        LET prims == TypePrimitives
            n == Len(prims)
        IN  /\ n <= 4
            /\ \A k \in 1..n : /\ prims[k].op = TypeOrder[k]
                               /\ prims[k].sel = x_calls[1].sel
            /\ \A k \in 1..n :
                  IF prims[k].op = "fill"
                  THEN n = 4 /\ prims[4].arg = OrElse(StepText(x_step, x_vars), "")
                  ELSE IF prims[k].ok
                  THEN k = 4 => StepSucceeded
                  ELSE k = n /\ FailedAt(n + 1)

C23_Witness ==
    /\ TypeTextEntered
    /\ Len(TypePrimitives) = 4
    /\ ~TypePrimitives[3].ok
    /\ TypePrimitives[4].ok
    /\ TypePrimitives[4].arg # ""
    /\ StepSucceeded


\* the step is somewhere inside _try_open_nav_and_retry_home
InFallback == x_pc \in {"fb_visible", "fb_click", "fb_home_visible", "fb_home_click"}

\* the click step found its target not visible, and the name line 397 tests
\* (of the element the wait was made on) has no "home" in it
InvisibleNotHome ==
    /\ InStep
    /\ TargetWaitTimedOut
    /\ ActionOf(x_step) = "click"
    /\ ~Contains(HomeTestName(x_calls[1].obj, Get(x_step, "target", NoDict)), "home")

\* C24: a click step whose target is not visible and whose target name (the
\* chosen element's name, else the match text, else the target name) has no
\* "home" in it fails at once: the timed out wait is the only call of the step,
\* the Home fallback is not entered and nothing is clicked.
C24_InvisibleNotHomeFails ==
    InvisibleNotHome =>
        /\ FailedAt(1)
        /\ ~InFallback
        /\ x_fb = NoFb
        /\ \A k \in 1..Len(x_calls) : x_calls[k].op # "click"

\* the snapshot holds elements the Home fallback would have tried
C24_Witness ==
    /\ InvisibleNotHome
    /\ NextFb(x_elements, 1, 1) # FbNone
    /\ FailedAt(1)

C24_WitnessChosen ==
    /\ InvisibleNotHome
    /\ x_calls[1].obj # NoDict
    /\ FailedAt(1)


\* the places (branch b, element k) where an element of the snapshot is one
\* that branch b of the Home fallback tries
FbPositionsIn(elements_min) ==
    { p \in [b : 1..3, k : 1..Len(elements_min)] : FbCandidate(p.b, elements_min[p.k]) }

FbPositionsOf == [elements_min \in SnapPool |-> FbPositionsIn(elements_min)]

FbPositions == FbPositionsOf[x_elements]

\* nav openers come before logos, logos before home links, and within a
\* branch the elements come in the order of the snapshot
FbBefore(p, q) == p.b < q.b \/ (p.b = q.b /\ p.k < q.k)

\* one step of run_plan_stepwise as the Home fallback is allowed to make it
FallbackInOrder ==
    \* the fallback starts with the first element of the first branch that has one
    /\ (x_fb = NoFb /\ x_fb' # NoFb)
           => /\ x_pc = "visible"
              /\ x_fb' \in FbPositions
              /\ \A p \in FbPositions : ~FbBefore(p, x_fb')
              /\ ~x_calls'[Len(x_calls')].ok
    \* it goes on to a later element or branch only when the attempt in hand
    \* failed, and it passes over no element on the way
    /\ (x_fb # NoFb /\ x_fb' # NoFb /\ x_fb' # x_fb)
           => /\ InFallback
              /\ x_fb' \in FbPositions
              /\ FbBefore(x_fb, x_fb')
              /\ \A p \in FbPositions : ~(FbBefore(x_fb, p) /\ FbBefore(p, x_fb'))
              /\ ~x_calls'[Len(x_calls')].ok
    \* an attempt that succeeds ends the step: no later element or branch is tried
    /\ (InFallback /\ x_calls'[Len(x_calls')].op = "click" /\ x_calls'[Len(x_calls')].ok
            /\ ~(x_pc = "fb_click" /\ x_fb.b = 1))
           => x_pc' = "after" /\ x_fb' = x_fb
    /\ (InFallback /\ x_pc' = "after")
           => /\ x_fb' = x_fb
              /\ x_calls'[Len(x_calls')].op = "click"
              /\ x_calls'[Len(x_calls')].ok
    \* with every branch failed the step fails and run_plan_stepwise returns False
    /\ (InFallback /\ ~InFallback' /\ x_pc' # "after")
           => /\ x_pc' = "done"
              /\ ~x_ret'
              /\ x_outcomes' = Append(x_outcomes, "failed")
              /\ \A p \in FbPositions : ~FbBefore(x_fb, p)
              /\ ~x_calls'[Len(x_calls')].ok
    /\ (InFallback /\ x_calls' # x_calls /\ ~x_calls'[Len(x_calls')].ok
            /\ \A p \in FbPositions : ~FbBefore(x_fb, p))
           => x_pc' = "done" /\ ~x_ret'

\* C25: the Home fallback tries the nav-opener buttons, then the logo or home
\* labelled link, img or button, then the links with "home" in their name; it
\* moves to a later element or branch only after the attempt in hand failed, the
\* first attempt that succeeds ends the step with success and nothing more is
\* tried, and when the last attempt fails the click step fails and
\* run_plan_stepwise returns False.
C25_FallbackBranchOrder == [][FallbackInOrder]_vars

\* all three branches were tried and failed
C25_Witness ==
    /\ InStep
    /\ ActionOf(x_step) = "click"
    /\ x_elements = NavSnap
    /\ ReturnedFalse
    /\ \E i, j, k \in 1..Len(x_calls) :
           /\ i < j /\ j < k
           /\ x_calls[i].obj = MenuBtn
           /\ x_calls[j].obj = LogoLink
           /\ x_calls[k].obj = HomeLink
           /\ x_calls[k].op = "click"
           /\ ~x_calls[k].ok
           /\ k = Len(x_calls)

\* the logo branch succeeded after the nav-opener branch failed
C25_WitnessSecondBranch ==
    /\ x_pc = "after"
    /\ x_fb.b = 2
    /\ \E i \in 1..Len(x_calls) : x_calls[i].obj = MenuBtn /\ ~x_calls[i].ok


---------------------------------------------------------------------------
(* Claims on the second look at the chosen element before a click, checked   *)
(* under SpecExec                                                            *)

\* the not_contains entries of the step together with the default blocklist
ActiveBlocklist(target) == TargetEntries(target) \o _NEG_DEFAULT

\* the element a click step acts on when every chosen element whose name has an
\* entry of the active blocklist in it gives way to the second candidate of a
\* new ranking that has two
SecondIfBlocked(step, elements_min, last_chosen_el) ==
    LET target == Get(step, "target", NoDict)
        chosen_el == ResolveTarget(step, elements_min, last_chosen_el).chosen_el
        alts == _rank_candidates(elements_min, RecheckMatch(target), last_chosen_el)
    IN  IF /\ chosen_el # NoDict
           /\ ContainsEntry(Get(chosen_el, "name", ""), ActiveBlocklist(target))
           /\ Len(alts) >= 2
        THEN alts[2]
        ELSE chosen_el

\* the click step has resolved its target and has called no primitive yet
ClickResolved ==
    /\ InStep
    /\ x_pc = "visible"
    /\ x_calls = <<>>
    /\ ActionOf(x_step) = "click"

\* C26: the element a click step goes on with is the second candidate of a new
\* ranking of the snapshot when the name of the chosen element has an entry of
\* the active blocklist (the not_contains entries of the step and the default
\* blocklist) in it and the new ranking has two candidates or more, and the
\* chosen element otherwise.
C26_BlockedChoiceReplaced ==
    ClickResolved => x_el = SecondIfBlocked(x_step, x_elements, x_last)

\* what lines 376-393 do: the second candidate takes the place of the chosen
\* element only when the target's own not_contains list blocks it and the target
\* has a match or a role or name to rank with
C26_ReplacedOnTargetListOnly ==
    ClickResolved =>
        LET target == Get(x_step, "target", NoDict)
            chosen_el == ResolveTarget(x_step, x_elements, x_last).chosen_el
            alts == _rank_candidates(x_elements, RecheckMatch(target), x_last)
        IN  x_el = IF /\ chosen_el # NoDict
                      /\ ContainsEntry(Get(chosen_el, "name", ""),
                                       Get(target, "not_contains", <<>>))
                      /\ {"match", "role", "name"} \cap DOMAIN target # {}
                      /\ Len(alts) >= 2
                   THEN alts[2]
                   ELSE chosen_el

\* the second candidate took the place of a blocked first choice
C26_Replaced ==
    /\ ClickResolved
    /\ x_el # NoDict
    /\ x_el # ResolveTarget(x_step, x_elements, x_last).chosen_el

\* a chosen element with a default blocklist entry in its name is kept
C26_DefaultBlockedKept ==
    /\ ClickResolved
    /\ "not_contains" \notin DOMAIN Get(x_step, "target", NoDict)
    /\ ContainsEntry(Get(x_el, "name", ""), _NEG_DEFAULT)
    /\ x_el # SecondIfBlocked(x_step, x_elements, x_last)


---------------------------------------------------------------------------
(* Claims on the scores of the candidate resolver, checked under SpecRank *)

\* the element is in the list _rank_candidates returned
Ranked(el) == \E i \in 1..Len(r_ranked) : r_ranked[i] = el

\* the element passes the role, the name and the blocklist filter of lines 55-61
PassesFilters(el, match) ==
    /\ "role" \in DOMAIN match /\ Truthy(match.role)
           => _norm(match.role) = _norm(Get(el, "role", None))
    /\ Truthy(Get(el, "name", None))
    /\ ~ContainsEntry(Get(el, "name", None), MatchNotContains(match))

\* 1.0, 0.85, 0.6 or 0 (in 1/2000) by how the normalized element name compares
\* with the normalized query text
ScoreByCase(qn, tn) ==
    IF qn = tn THEN 2000
    ELSE IF StartsWith(tn, qn) THEN 1700
    ELSE IF Contains(tn, qn) THEN 1200
    ELSE 0

\* the text score the statement gives an element that passes the filters
TextScoreByCase(el, match) ==
    IF MatchText(match) # ""
    THEN ScoreByCase(_norm(MatchText(match)), _norm(Get(el, "name", None)))
    ELSE 600

\* C27 as stated: whatever the MatchSpec, an element that passes the filters has
\* the text score 1.0, 0.85 or 0.6 of its case and is excluded in no other case
\* than the fourth when the query text is not empty, and has the text score 0.3
\* and is kept when the query text is empty. (A query text of whitespace alone
\* is left aside here.)
C27_TextScoreByCase ==
    (r_called /\ (MatchText(r_match) = "" \/ _norm(MatchText(r_match)) # "")) =>
        \A i \in 1..Len(r_elements) :
            PassesFilters(r_elements[i], r_match)
                => /\ TextScore(r_elements[i], r_match)
                          = TextScoreByCase(r_elements[i], r_match)
                   /\ Ranked(r_elements[i]) <=> TextScoreByCase(r_elements[i], r_match) > 0

\* C27: for a MatchSpec that does not set exact, an element that passes the
\* filters has the text score 1.0, 0.85 or 0.6 of its case when the normalized
\* query text is not empty, and is returned exactly when it has one of them; a
\* query text of whitespace alone excludes every element; with an empty query
\* text every element that passes the filters has the text score 0.3 and is
\* returned. For a MatchSpec that sets exact, an element whose normalized name
\* differs from the normalized query text has the text score 0 and is excluded.
C27_TextScoreByCaseUnlessExact ==
    r_called =>
        \A i \in 1..Len(r_elements) :
            PassesFilters(r_elements[i], r_match) =>
                LET el == r_elements[i]
                    qn == _norm(MatchText(r_match))
                    tn == _norm(Get(el, "name", None))
                    by_case == IF MatchText(r_match) = "" THEN 600
                               ELSE IF qn = "" THEN 0
                               ELSE ScoreByCase(qn, tn)
                    s_txt == IF MatchExact(r_match) /\ qn # tn THEN 0 ELSE by_case
                IN  /\ TextScore(el, r_match) = s_txt
                    /\ Ranked(el) <=> s_txt > 0

\* a prefix match is returned and an element without the query text is left out
C27_Witness ==
    /\ r_called
    /\ ~MatchExact(r_match)
    /\ MatchText(r_match) = "home"
    /\ \E i, j \in 1..Len(r_elements) :
           /\ PassesFilters(r_elements[i], r_match)
           /\ TextScore(r_elements[i], r_match) = 1700
           /\ Ranked(r_elements[i])
           /\ PassesFilters(r_elements[j], r_match)
           /\ TextScore(r_elements[j], r_match) = 0
           /\ ~Ranked(r_elements[j])

C27_WitnessSubstring ==
    /\ r_called
    /\ ~MatchExact(r_match)
    /\ \E i \in 1..Len(r_elements) :
           /\ PassesFilters(r_elements[i], r_match)
           /\ TextScore(r_elements[i], r_match) = 1200
           /\ Ranked(r_elements[i])

C27_WitnessEmptyQuery ==
    /\ r_called
    /\ ~MatchExact(r_match)
    /\ MatchText(r_match) = ""
    /\ Len(r_ranked) = 2

C27_WitnessBlankQuery ==
    /\ r_called
    /\ MatchText(r_match) = " "
    /\ \E i \in 1..Len(r_elements) : PassesFilters(r_elements[i], r_match)
    /\ r_ranked = <<>>


\* the role bonus: 0.3, 0.2, 0.1 for textbox, button, link, in 1/2000
RolePreference(role) ==
    CASE role = "textbox" -> 600
      [] role = "button" -> 400
      [] role = "link" -> 200
      [] OTHER -> 0

\* text score plus role bonus plus proximity bonus
TotalScore(el) ==
    TextScore(el, r_match) + RolePreference(_norm(Get(el, "role", None)))
        + ProximityBonus(el, r_last)

\* where the element stands in the snapshot (the uids of a snapshot differ)
SnapshotIndex(el) == CHOOSE k \in 1..Len(r_elements) : r_elements[k] = el

\* C28: _rank_candidates returns the eligible elements of the snapshot, each of
\* them once and nothing else, in the order of non-increasing total score (text
\* score plus role bonus 0.3, 0.2, 0.1 for textbox, button, link plus proximity
\* bonus), and two of them with the same total score stand in the order they
\* have in the snapshot.
C28_SortedStable ==
    r_called =>
        /\ \A k \in 1..Len(r_elements) :
               Eligible(r_elements[k], r_match) <=> Ranked(r_elements[k])
        /\ \A i \in 1..Len(r_ranked) :
               /\ \E k \in 1..Len(r_elements) : r_elements[k] = r_ranked[i]
               /\ Score(r_ranked[i], r_match, r_last) = TotalScore(r_ranked[i])
        /\ \A i, j \in 1..Len(r_ranked) :
               i < j =>
                   /\ r_ranked[i] # r_ranked[j]
                   /\ TotalScore(r_ranked[i]) >= TotalScore(r_ranked[j])
                   /\ TotalScore(r_ranked[i]) = TotalScore(r_ranked[j])
                          => SnapshotIndex(r_ranked[i]) < SnapshotIndex(r_ranked[j])

\* two candidates with the same total score, returned in snapshot order
C28_Witness ==
    /\ r_called
    /\ Len(r_ranked) = 2
    /\ r_ranked = r_elements
    /\ TotalScore(r_ranked[1]) = TotalScore(r_ranked[2])
    /\ Get(r_ranked[1], "role", None) # Get(r_ranked[2], "role", None)

\* the candidate with the higher total score comes first though it stands
\* second in the snapshot
C28_WitnessReordered ==
    /\ r_called
    /\ Len(r_ranked) = 2
    /\ r_ranked = <<r_elements[2], r_elements[1]>>
    /\ TotalScore(r_ranked[1]) > TotalScore(r_ranked[2])


\* there is a last target and both it and the element have a bounding box
BothBoxed(el) ==
    /\ r_last # NoDict
    /\ Get(el, "bbox", <<>>) # <<>>
    /\ Get(r_last, "bbox", <<>>) # <<>>

\* C29: the proximity bonus of an element is 0 when there is no last target or
\* one of the two has no bounding box; otherwise it is max(0, 0.25 - d/1000) for
\* the distance d of the box centres: at most 0.25, not negative, 0 from 1000 px
\* on, and not greater for an element that is farther away. (CenterDistance2 is
\* 2 d and the bonus is in 1/2000, so that 0.25 is 500 and d/1000 is
\* CenterDistance2.)
C29_ProximityBonus ==
    r_called =>
        \A i \in 1..Len(r_elements) :
            LET el == r_elements[i]
                s_near == ProximityBonus(el, r_last)
            IN  IF ~BothBoxed(el) THEN s_near = 0
                ELSE /\ s_near = Max(0, 500 - CenterDistance2(el, r_last))
                     /\ s_near <= 500
                     /\ s_near >= 0
                     /\ CenterDistance2(el, r_last) >= 2000 => s_near = 0
                     /\ \A j \in 1..Len(r_elements) :
                            (BothBoxed(r_elements[j])
                                /\ CenterDistance2(r_elements[j], r_last)
                                       >= CenterDistance2(el, r_last))
                                => ProximityBonus(r_elements[j], r_last) <= s_near

\* an element 100 px and an element 1200 px from the last target: the bonus is
\* 0.15 for the one and 0 for the other
C29_Witness ==
    /\ r_called
    /\ Len(r_elements) = 2
    /\ BothBoxed(r_elements[1])
    /\ BothBoxed(r_elements[2])
    /\ CenterDistance2(r_elements[1], r_last) = 200
    /\ ProximityBonus(r_elements[1], r_last) = 300
    /\ CenterDistance2(r_elements[2], r_last) >= 2000
    /\ ProximityBonus(r_elements[2], r_last) = 0

\* no bounding box on the last target: no bonus
C29_WitnessNoBox ==
    /\ r_called
    /\ r_last = AnchorNoBox
    /\ \E i \in 1..Len(r_elements) :
           Get(r_elements[i], "bbox", <<>>) # <<>> /\ ProximityBonus(r_elements[i], r_last) = 0


---------------------------------------------------------------------------
(* Claims on the last target the executor hands the candidate resolver,      *)
(* checked under SpecExec                                                    *)

\* _type_text or _click on the resolved target has just succeeded
ActedOnTarget == x_pc \in {"type_text", "click"} /\ x_pc' = "after"

\* the Home fallback has just succeeded
FallbackSucceeded == InFallback /\ x_pc' = "after"

\* the target of the step is one the candidate resolver ranks for
MatchResolved(step) ==
    LET target == Get(step, "target", NoDict)
    IN  /\ ActionOf(step) \in {"type", "click"}
        /\ {"selector", "uid"} \cap DOMAIN target = {}
        /\ \/ "match" \in DOMAIN target
           \/ /\ {"role", "name"} \cap DOMAIN target # {}
              /\ {"not_contains", "exact"} \cap DOMAIN target # {}

\* the match the step has the snapshot ranked for
MatchOf(step) ==
    IF "match" \in DOMAIN step.target THEN step.target.match ELSE LegacyMatch(step.target)

\* a match-resolved step begins: what becomes of it is what the ranking for its
\* match with x_last as last target gives
RankedWithLast ==
    (x_pc = "step" /\ x_step' # x_step /\ MatchResolved(x_step')) =>
        LET ranked == _rank_candidates(x_elements, MatchOf(x_step'), x_last)
        IN  IF ranked = <<>> THEN x_pc' = "done" /\ ~x_ret'
            ELSE /\ x_pc' = "visible"
                 /\ x_el' = IF ActionOf(x_step') = "type" THEN ranked[1]
                            ELSE ClickRecheck(Resolved(_resolve_target_selector(ranked[1]),
                                                       ranked[1]),
                                              x_step'.target, x_elements, x_last).chosen_el

\* C30 as stated: the last target is empty when run_plan_stepwise starts,
\* becomes the element of a type or click step when the step succeeds on an
\* element of the snapshot, and is otherwise left as it is up to the ranking of
\* the next match-resolved step.
C30_LastTargetIsLastActedOn ==
    [][/\ (x_pc = "idle" /\ x_pc' # "idle") => x_last' = NoDict
       /\ (ActedOnTarget /\ x_el # NoDict) => x_last' = x_el
       /\ x_last' # x_last => ((ActedOnTarget \/ FallbackSucceeded) /\ x_last' = x_el)
       /\ RankedWithLast]_vars

\* C30: the last target is empty when run_plan_stepwise starts; it becomes the
\* element of a type or click step when _type_text or _click succeeds on an
\* element of the snapshot (found by uid, match or legacy search, or the second
\* candidate that took its place); it becomes empty when a click step succeeds
\* through the Home fallback; nothing else changes it, and the ranking of a
\* match-resolved step is made with it.
C30_LastTargetUnlessFallback ==
    [][/\ (x_pc = "idle" /\ x_pc' # "idle") => x_last' = NoDict
       /\ (ActedOnTarget /\ x_el # NoDict) => x_last' = x_el
       /\ FallbackSucceeded => x_last' = NoDict
       /\ (x_last' # x_last /\ ~FallbackSucceeded) => (ActedOnTarget /\ x_last' = x_el)
       /\ RankedWithLast]_vars

\* the second step is match-resolved and is ranked with the element the first
\* step clicked, the second candidate that took the place of a blocked first
C30_Witness ==
    /\ InStep
    /\ x_i = 2
    /\ x_pc = "visible"
    /\ MatchResolved(x_step)
    /\ x_last = LogoLink
    /\ x_elements = LogoSnap
    /\ x_outcomes = <<"ok">>
    /\ _rank_candidates(x_elements, MatchOf(x_step), x_last)
           # _rank_candidates(x_elements, MatchOf(x_step), NoDict)

\* a click that succeeded through the Home fallback emptied a last target
C30_WitnessFallback ==
    /\ x_pc = "after"
    /\ x_fb # NoFb
    /\ x_i = 2
    /\ x_last = NoDict
    /\ x_outcomes = <<"ok">>
    /\ x_el # NoDict


---------------------------------------------------------------------------
(* C31..C36: the records of elements_min that snapshot_page returns *)

\* snapshot_page has returned its elements_min
Returned == s_pc = "done"

\* C31: every record of the elements_min of a snapshot has a name that is not
\* empty and is at most 140 characters long.
C31_NamedWithin140 ==
    Returned => \A i \in 1..Len(s_minimal) :
                    s_minimal[i].name # "" /\ Len(s_minimal[i].name) <= 140


\* the accessibility nodes aligned to DOM record di, in traversal order
AlignedOnto(di) == { ai \in DOMAIN s_ax2dom : s_ax2dom[ai] = di }

\* C32: an accessibility node is aligned to at most one DOM node, and a DOM
\* node receives at most one alignment: no two accessibility nodes are aligned
\* to the same DOM node, and the accessibility node recorded with a DOM node is
\* the first in traversal order that was aligned to it.
C32_OneAlignmentEach ==
    s_pc # "idle" =>
        /\ \A ai \in DOMAIN s_ax2dom : s_ax2dom[ai] \in 1..Len(s_full)
        /\ \A ai, aj \in DOMAIN s_ax2dom : ai # aj => s_ax2dom[ai] # s_ax2dom[aj]
        /\ \A di \in 1..Len(s_full) :
               AlignedOnto(di) # {} =>
                   LET first == CHOOSE ai \in AlignedOnto(di) :
                                    \A k \in AlignedOnto(di) : ai <= k
                   IN  /\ s_full[di].ax.role = s_ax[first].role
                       /\ s_full[di].ax.name = s_ax[first].name


\* 0.85 * (name similarity) + 0.15 * (1 if the roles match, else 0) of
\* accessibility node ax and DOM record e, in 1/2000
WeightedScore(ax, e) ==
    LET text_s == TokenSetTable[AxName(ax), OrElse(e.name, "")]
    IN  Ratio(1700 * text_s[1] + (IF RoleMatches(ax, e) THEN 300 * text_s[2] ELSE 0),
              text_s[2])

\* the visible-like DOM records of the frame of ax
SameFrameRecords(ax) ==
    { di \in 1..Len(s_full) :
          _is_visible_like(s_full[di]) /\ s_full[di].frame_path = ax.frame_path }

\* C33: an accessibility node is aligned exactly when the best of the scores
\* 0.85 * similarity + 0.15 * (roles match) over the visible-like DOM nodes of
\* its frame is at least 0.5, and then to a node with that best score.
C33_AlignedByWeightedScore ==
    s_pc # "idle" =>
        \A ai \in 1..Len(s_ax) :
            LET cands == SameFrameRecords(s_ax[ai])
                Reaches(di) ==
                    ~RatioLess(WeightedScore(s_ax[ai], s_full[di]), Ratio(1000, 1))
            IN  /\ ai \in DOMAIN s_ax2dom <=> \E di \in cands : Reaches(di)
                /\ ai \in DOMAIN s_ax2dom =>
                       /\ s_ax2dom[ai] \in cands
                       /\ \A dj \in cands :
                              ~RatioLess(WeightedScore(s_ax[ai], s_full[s_ax2dom[ai]]),
                                         WeightedScore(s_ax[ai], s_full[dj]))


\* the records of elements_min made of accessibility node ai
AxRecordsOf(ai) == { k \in 1..Len(s_minimal) : s_minimal[k].uid = <<"ax", ai>> }

\* the (role, name, selector) key of accessibility node ai is the key of a
\* record that some other node gave
KeyPresent(ai) ==
    \E k \in 1..Len(s_minimal) :
        /\ s_minimal[k].uid # <<"ax", ai>>
        /\ KeyOf(s_minimal[k]) = KeyOf(AxItem(s_ax[ai], ai))

\* C34: an accessibility node gets an accessibility-only record exactly when it
\* failed alignment, its role is one of INTERACTIVE_ROLES, its name is not empty
\* and its key is not present already; the record has the selector
\* aria://<role>::<name>, no tag and no bounding box.
C34_AxOnlyRecords ==
    Returned =>
        \A ai \in 1..Len(s_ax) :
            LET item == AxItem(s_ax[ai], ai)
            IN  /\ AxRecordsOf(ai) # {}
                    <=> /\ ai \notin DOMAIN s_ax2dom
                        /\ item.role \in INTERACTIVE_ROLES
                        /\ item.name # ""
                        /\ ~KeyPresent(ai)
                /\ \A k \in AxRecordsOf(ai) :
                       /\ s_minimal[k].selector_pref
                              = "aria://" \o item.role \o "::" \o item.name
                       /\ s_minimal[k].tag = None
                       /\ s_minimal[k].bbox = NoDict


\* the records of elements_min that were made of a DOM record
DomDerived == { k \in 1..Len(s_minimal) : s_minimal[k].uid[1] = "dom" }

\* C35: every record of elements_min made of a DOM node comes from a
\* visible-like DOM node; the last resort gives at most 10 records and only
\* when the two loops gave none.
C35_DomRecordsVisibleLike ==
    Returned =>
        /\ \A k \in DomDerived : _is_visible_like(s_full[s_minimal[k].uid[2]])
        /\ s_seen = {} => Len(s_minimal) <= 10
        /\ s_seen # {} => Len(s_minimal) = Cardinality(s_seen)


\* the attribute-based CSS selector of a DOM record, None when none can be built
AttrSelector(e) ==
    IF Truthy(Get(e.attrs, "aria-label", None))
    THEN "[aria-label=\"" \o e.attrs["aria-label"] \o "\"]"
    ELSE IF e.tag = "input" /\ Truthy(Get(e.attrs, "name", None))
    THEN "input[name=\"" \o e.attrs["name"] \o "\"]"
    ELSE IF e.tag = "a" /\ Truthy(Get(e.attrs, "href", None))
    THEN "a[href=\"" \o e.attrs["href"] \o "\"]"
    ELSE None

\* aria://<role>::<name> of a record of elements_min
AriaOf(r) == "aria://" \o StrLower(Strip(r.role)) \o "::" \o Strip(r.name)

HasRoleAndName(r) == Truthy(r.role) /\ Truthy(r.name)

\* the DOM record that record k of elements_min was made of
SourceOf(k) == s_full[s_minimal[k].uid[2]]

\* C36: the selector an element is relocated by is its attribute-based CSS
\* selector when one can be built, otherwise aria://<role>::<name> when it has a
\* role and a name, and its CSS path only when it has neither of the two.
C36_SelectorOrder ==
    Returned =>
        \A k \in 1..Len(s_minimal) :
            LET r == s_minimal[k]
                attr == IF k \in DomDerived THEN AttrSelector(SourceOf(k)) ELSE None
            IN  _resolve_target_selector(r) =
                    IF attr # None THEN attr
                    ELSE IF HasRoleAndName(r) THEN AriaOf(r)
                    ELSE IF k \in DomDerived THEN OrElse(SourceOf(k).css, None)
                    ELSE None

\* C36 as the code has it: the attribute-based CSS selector when one can be
\* built, otherwise the CSS path of the DOM node, and aria://<role>::<name>
\* only for a record that has no selector of the DOM, when it has a role and a
\* name.
C36_SelectorOrderCssBeforeAria ==
    Returned =>
        \A k \in 1..Len(s_minimal) :
            LET r == s_minimal[k]
                attr == IF k \in DomDerived THEN AttrSelector(SourceOf(k)) ELSE None
                css == IF k \in DomDerived THEN SourceOf(k).css ELSE None
            IN  _resolve_target_selector(r) =
                    IF attr # None THEN attr
                    ELSE IF Truthy(css) THEN css
                    ELSE IF HasRoleAndName(r) THEN AriaOf(r)
                    ELSE None

\* a snapshot with a record relocated by its CSS path although it has a role
\* and a name, and an accessibility-only record relocated by aria://
C36_Witness ==
    /\ Returned
    /\ \E k \in DomDerived :
           /\ AttrSelector(SourceOf(k)) = None
           /\ HasRoleAndName(s_minimal[k])
           /\ _resolve_target_selector(s_minimal[k]) = "div:nth-of-type(1)"
    /\ \E k \in 1..Len(s_minimal) :
           /\ k \notin DomDerived
           /\ _resolve_target_selector(s_minimal[k]) = "aria://link::Home"

\* a snapshot with a record relocated by its attribute-based selector
C36_WitnessAttr ==
    /\ Returned
    /\ \E k \in DomDerived :
           /\ HasRoleAndName(s_minimal[k])
           /\ _resolve_target_selector(s_minimal[k]) = "[aria-label=\"Close\"]"


---------------------------------------------------------------------------
(* C37, C38: the legacy (role, name) targets, under SpecResolve *)

\* the target of the step that was resolved
ResolvedTarget == Get(r_step, "target", NoDict)

\* a legacy target that carries neither not_contains nor exact
PlainLegacy(target) ==
    /\ DOMAIN target \cap {"role", "name"} # {}
    /\ DOMAIN target \cap {"selector", "uid", "match", "not_contains", "exact"} = {}

\* the first element of the snapshot with the role and the name of the target,
\* else the first with its role and a name that contains the target's name;
\* Same(a, b) says when a normalized role or name of the target is taken to
\* equal that of an element, In(a, b) when it is taken to be contained in it
ExactThenSubstring(target, Same(_, _), In(_, _)) ==
    LET role_n == _norm(Get(target, "role", None))
        name_n == _norm(Get(target, "name", None))
        Exact(el) == /\ Same(role_n, _norm(Get(el, "role", None)))
                     /\ Same(name_n, _norm(Get(el, "name", None)))
        Part(el) == /\ Same(role_n, _norm(Get(el, "role", None)))
                    /\ In(name_n, _norm(Get(el, "name", None)))
    IN  IF FirstWhere(r_elements, Exact) # NoDict THEN FirstWhere(r_elements, Exact)
        ELSE FirstWhere(r_elements, Part)

\* the step acts on element el, and fails when there is none or when no
\* selector can be derived from it
ActsOnElement(el) ==
    IF el = NoDict THEN r_res.err ELSE r_res = WithSelector(ResolveChosen(el))

Equal(a, b) == a = b

ContainedIn(a, b) == Contains(b, a)

\* C37: for a legacy {role, name} target without not_contains and exact, the
\* chosen element is the first whose normalized role and name both equal the
\* target's, else the first with equal role whose normalized name contains the
\* target's name; the step fails when neither exists.
C37_ExactThenSubstring ==
    (r_called /\ PlainLegacy(ResolvedTarget) /\ {"role", "name"} \subseteq DOMAIN ResolvedTarget)
        => ActsOnElement(ExactThenSubstring(ResolvedTarget, Equal, ContainedIn))

EqualUnlessEmpty(a, b) == a = "" \/ a = b

ContainedUnlessEmpty(a, b) == a = "" \/ Contains(b, a)

\* C37 as the code has it: a role or a name of the target that is missing or
\* empty once normalized is not compared at all.
C37_ExactThenSubstringUnlessEmpty ==
    (r_called /\ PlainLegacy(ResolvedTarget))
        => ActsOnElement(ExactThenSubstring(ResolvedTarget, EqualUnlessEmpty,
                                            ContainedUnlessEmpty))

\* the button Continue is chosen although Continue with Google, which contains
\* the name, comes first in the snapshot
C37_Witness ==
    /\ r_called
    /\ ResolvedTarget = [role |-> "button", name |-> "Continue"]
    /\ Len(r_elements) = 2
    /\ r_elements[1] = GoogleBtn
    /\ r_elements[2] = ContinueBtn
    /\ ~r_res.err
    /\ r_res.chosen_el = ContinueBtn

\* no element is named home: the element whose name contains it is chosen
C37_WitnessSubstring ==
    /\ r_called
    /\ ResolvedTarget = [role |-> "button", name |-> "home"]
    /\ ~r_res.err
    /\ r_res.chosen_el.name = "Home  Page"

\* neither exists: the step fails
C37_WitnessFails ==
    /\ r_called
    /\ ResolvedTarget = [role |-> "Link", name |-> "Continue"]
    /\ r_elements # <<>>
    /\ r_res.err


\* a legacy target that carries not_contains, exact or both
MaskedLegacy(target) ==
    /\ DOMAIN target \cap {"role", "name"} # {}
    /\ DOMAIN target \cap {"not_contains", "exact"} # {}
    /\ DOMAIN target \cap {"selector", "uid", "match"} = {}

\* line 397 for what the step acts on
HomeTestOf(res, target) == HomeTestName(res.chosen_el, target)

\* C38: a step whose target is the legacy {role: R, name: N, exact: E,
\* not_contains: L} acts on the same selector and element, fails alike and is
\* taken for a Home target alike, as the step with the target
\* {match: {role: R, text: N, exact: E, not_contains: L}}, on every snapshot and
\* with every last target.
C38_LegacyAsMatch ==
    (r_called /\ MaskedLegacy(ResolvedTarget))
        => LET as_match == ActsOn(r_step.action, MatchForm(ResolvedTarget), r_elements,
                                  r_last)
           IN  /\ r_res = as_match
               /\ HomeTestOf(r_res, ResolvedTarget)
                      = HomeTestOf(as_match, MatchForm(ResolvedTarget))

\* the legacy target with all four keys picks the button Continue among the
\* two buttons whose names start with it, as the match does
C38_Witness ==
    /\ r_called
    /\ r_step = [action |-> "click",
                 target |-> [role |-> "button", name |-> "Continue", exact |-> TRUE,
                             not_contains |-> <<"Page">>]]
    /\ Len(r_elements) = 2
    /\ r_elements[1] = GoogleBtn
    /\ r_elements[2] = ContinueBtn
    /\ ~r_res.err
    /\ r_res.chosen_el = ContinueBtn
    /\ r_res.selector = "aria://button::Continue"

\* the last target decides between two buttons of the same name, for both
\* shapes of the target
C38_WitnessProximity ==
    /\ r_called
    /\ MaskedLegacy(ResolvedTarget)
    /\ r_last = Anchor
    /\ Len(r_elements) = 2
    /\ r_elements[1].uid = "b3"
    /\ r_elements[2].uid = "b1"
    /\ ~r_res.err
    /\ r_res.chosen_el.uid = "b1"

\* the step with the match form of the same target was resolved as well
C38_WitnessMatchForm ==
    /\ r_called
    /\ r_step.target = MatchForm([role |-> "button", name |-> "Continue", exact |-> TRUE,
                                  not_contains |-> <<"Page">>])
    /\ ~r_res.err
    /\ r_res.chosen_el = ContinueBtn

-----------------------------------------------------------------------------
\* C39: an empty plan, the one plan_actions returns for a reply that is not
\* valid JSON or has no list of steps included, is executed by
\* run_plan_stepwise as a success with no automation primitive and no observer
\* callback invoked, and main takes no recovery snapshot and plans no second
\* time for it

\* the events of main since its last call of plan_actions
SincePlan ==
    IF Len(m_events) < 3 THEN m_events
    ELSE SubSeq(m_events, Len(m_events) - 2, Len(m_events))

C39_EmptyPlanSucceeds ==
    plan_nsteps = 0 =>
        /\ m_pc \notin {"recover", "replan"}
        /\ m_pc \in {"run", "run_retry"} =>
               /\ x_nsteps = 0
               /\ x_calls = <<>>
               /\ x_outcomes = <<>>
               /\ step_counter = 0
               /\ x_pc \in {"step", "done"}
               /\ x_pc = "done" => x_ret
        /\ m_pc = "next" =>
               /\ ok
               /\ SincePlan = <<"plan", "exec", "return:true">>

\* the first plan of a round was empty and run_plan_stepwise has returned
C39_Witness ==
    /\ m_pc = "next"
    /\ plan_nsteps = 0
    /\ ok
    /\ m_events = <<"snapshot:pre", "plan", "exec", "return:true">>

\* a plan made for the recovery was empty and run_plan_stepwise has returned
C39_WitnessRetry ==
    /\ m_pc = "next"
    /\ plan_nsteps = 0
    /\ ok
    /\ Len(m_events) > 4
    /\ \E k \in DOMAIN m_events : m_events[k] = "snapshot:recover"

-----------------------------------------------------------------------------
(* C39 is checked under Spec above; C40 on last_chosen_el under SpecExec *)

\* the step at hand names its selector itself
BySelector == "selector" \in DOMAIN Get(x_step, "target", NoDict)

\* a step is passed over by "continue": its action is empty or is none of
\* the executor's
PassedOver ==
    /\ x_pc = "step"
    /\ x_pc' = "step"
    /\ x_i' = x_i + 1

\* C40: the last target changes only when the type or click of a step
\* succeeds: a click that succeeds through the Home fallback empties it, so
\* that the next match-resolved step is ranked with no last target, while a
\* type or click on a selector the step names, a wait_url_contains step, a
\* skipped step and a step with an empty action leave it as it was
C40_LastTargetChanges ==
    [][/\ x_last' # x_last =>
              /\ ActedOnTarget \/ FallbackSucceeded
              /\ ActionOf(x_step) \in {"type", "click"}
       /\ FallbackSucceeded => x_last' = NoDict
       /\ (ActedOnTarget /\ BySelector) => x_last' = x_last
       /\ x_pc = "wait_url" => x_last' = x_last
       /\ PassedOver => x_last' = x_last
       /\ (x_last = NoDict /\ x_pc = "step" /\ x_step' # x_step /\ MatchResolved(x_step')) =>
              LET ranked == _rank_candidates(x_elements, MatchOf(x_step'), NoDict)
              IN  ranked # <<>> =>
                      /\ x_pc' = "visible"
                      /\ ActionOf(x_step') = "type" => x_el' = ranked[1]]_vars

\* a type or click on a selector the step names has succeeded after a step
\* that acted on an element, and the last target is still that element
C40_Witness ==
    /\ x_pc = "after"
    /\ x_i = 2
    /\ BySelector
    /\ ActionOf(x_step) \in {"type", "click"}
    /\ x_el = NoDict
    /\ x_last # NoDict
    /\ x_outcomes = <<"ok">>

\* the same with a type step
C40_WitnessType ==
    /\ C40_Witness
    /\ ActionOf(x_step) = "type"

\* a URL wait has succeeded after a step that acted on an element
C40_WitnessWait ==
    /\ x_pc = "after"
    /\ x_i = 2
    /\ ActionOf(x_step) = "wait_url_contains"
    /\ x_last # NoDict

\* a skipped step and a step with an empty action followed a step that acted
\* on an element
C40_WitnessPassedOver ==
    /\ x_pc = "step"
    /\ x_i = 4
    /\ x_outcomes \in {<<"ok", "skipped", "empty">>, <<"ok", "empty", "skipped">>}
    /\ x_last # NoDict

\* a match-resolved step is under way after a click that succeeded through
\* the Home fallback emptied a last target
C40_WitnessFallback ==
    /\ x_pc = "visible"
    /\ x_i = 3
    /\ x_outcomes = <<"ok", "ok_fallback">>
    /\ MatchResolved(x_step)
    /\ x_last = NoDict
    /\ x_el # NoDict

=============================================================================
